---- MODULE Spec2Model ----
(***************************************************************************)
(* Frame-group inference of genLightParamDescriptions.py:                  *)
(* FrameGroupFinder.find walks the frames of a light in order, builds a    *)
(* single-frame FrameGroupTracker per frame and merges it into the last    *)
(* open tracker with FrameGroupTracker.combine.                            *)
(*                                                                         *)
(* Values are records [k |-> kind, v |-> number]; a float is modelled by   *)
(* an integer-valued float, which math.isclose compares exactly as below.  *)
(* Python dicts keyed by attribute name are functions (key order is not    *)
(* modelled); Python lists and the frame -> values dict, whose order the   *)
(* code relies on, are sequences.                                          *)
(***************************************************************************)
EXTENDS Integers, Sequences, FiniteSets, TLC

VARIABLES
    light_name,     \* FrameGroupFinder.light_name
    all_attrs,      \* FrameGroupFinder.all_attrs (attributes, by name)
    all_frames,     \* FrameGroupFinder.all_frames
    frame_groups,   \* FrameGroupFinder.frame_groups (list of trackers)
    stage,          \* values attr.Get(frame) returned so far, one per frame run
    pc,             \* "run" (in FrameGroupFinder.run), "done", "raised"
    err,            \* the exception that left find, "" if none
    result,         \* the list find returned
    call,           \* the last call of combine: tracker before, candidate, outcome
    fallback_calls, \* attribute name -> number of get_fallback calls so far
    compared        \* a call of vals_close: its two arguments and what it returned

\* The other programs and functions of the repository, one record of their
\* local variables each; None while it is not the one that runs.
VARIABLES
    gen,            \* gen_light_param_descriptions
    images,         \* gendiffs.gen_images_async and its tasks
    persisted,      \* a FrameGroup list written to JSON and read back
    checked,        \* a call of is_sorted / validate on a tracker
    mover,          \* move_render_frames.move_frames and the files on disk
    recorder        \* genembree.run_test reading the output of usdrecord

finder_vars == <<light_name, all_attrs, all_frames, frame_groups, stage, pc, err, result,
                 call, fallback_calls, compared>>

program_vars == <<gen, images, persisted, checked, mover, recorder>>

vars == <<light_name, all_attrs, all_frames, frame_groups, stage, pc, err, result,
          call, fallback_calls, compared,
          gen, images, persisted, checked, mover, recorder>>

-----------------------------------------------------------------------------
(* Bounds of the model *)

MaxLen == 4         \* longest frame list
MaxFrame == 6       \* frames are drawn from 1 .. MaxFrame
MaxStep == 2        \* largest distance between two consecutive frames of a list
MaxCalls == 2       \* longest frame list of the combine specification
MaxLights == 3      \* most lights on a stage
MaxTasks == 3       \* most image tasks queued by gen_images_async
MaxGroups == 2      \* most frame groups of a persisted description
MaxMoveFrame == 3   \* render frames are drawn from 1 .. MaxMoveFrame
MaxLines == 3       \* most lines usdrecord prints
MaxCpus == 3        \* largest multiprocessing.cpu_count() of the host

-----------------------------------------------------------------------------
(* Constants of the program and of the modelled scene *)

None == <<>>

\* none of the other programs runs
NoProgram ==
    /\ gen = None
    /\ images = None
    /\ persisted = None
    /\ checked = None
    /\ mover = None
    /\ recorder = None

FloatVal(n) == [k |-> "float", v |-> n]
IntVal(n) == [k |-> "int", v |-> n]
NoneVal == [k |-> "none", v |-> 0]
StrVal(n) == [k |-> "str", v |-> n]            \* the n-th string
ListVal(s) == [k |-> "list", v |-> s]          \* a list, tuple or other iterable
DictVal(s) == [k |-> "dict", v |-> s]          \* a dict: a sequence of <<key, value>>
MatrixVal(n) == [k |-> "matrix", v |-> n]      \* Gf.Matrix4d: identity with m[3][0] = n

\* all attribute names of the modelled scene, in Python string order
NameOrder ==
    <<"inputs:exposure", "inputs:shaping:cone:angle", "xformOp:rotateZ", "xformOp:transform">>

AttrNames == {NameOrder[i] : i \in 1 .. Len(NameOrder)}

Rank(name) == CHOOSE i \in 1 .. Len(NameOrder) : NameOrder[i] = name

\* the values the scene may hold for an attribute (what attr.Get returns)
AttrVals(name) ==
    CASE name = "inputs:exposure" -> {FloatVal(0), FloatVal(1), FloatVal(2)}
      [] name = "inputs:shaping:cone:angle" -> {FloatVal(90), FloatVal(180)}
      [] name = "xformOp:rotateZ" -> {FloatVal(0), FloatVal(45)}
      [] name = "xformOp:transform" -> {MatrixVal(0), MatrixVal(1)}

DEFAULT_OVERRIDES ==
    [name \in {"inputs:shaping:cone:angle"} |-> IntVal(180)]

\* the schema's fallback values (attr.HasFallbackValue / GetFallbackValue);
\* xformOp:rotateZ is a float attribute that has none, and neither has
\* xformOp:transform, whose type is the pxr.Gf class Matrix4d
SchemaFallback ==
    [name \in {"inputs:exposure", "inputs:shaping:cone:angle"} |->
        IF name = "inputs:exposure" THEN FloatVal(0) ELSE FloatVal(90)]

\* py_type() for the attributes whose value type is a class of pxr.Gf
GfDefault == [name \in {"xformOp:transform"} |-> MatrixVal(0)]

LightNames == {"dome", "distant", "iesTest"}

\* keys of SUMMARY_OVERRIDES[light], in dict order
OverrideRanges(light) ==
    CASE light = "distant" -> <<(<<1, 5>>), (<<6, 10>>)>>
      [] light \in {"iesTest", "iesLibPreview"} ->
            <<(<<1, 1>>), (<<11, 11>>), (<<21, 21>>), (<<31, 31>>)>>
      [] light \in {"sphere", "disk", "cylinder", "rect"} ->
            <<(<<1, 5>>), (<<26, 30>>), (<<46, 50>>)>>
      [] OTHER -> <<>>

\* key.startswith("xformOp:")
IsXformOp(name) == name \in {"xformOp:rotateZ", "xformOp:transform"}

-----------------------------------------------------------------------------
(* Utilities *)

SeqToSet(s) == {s[i] : i \in 1 .. Len(s)}

Last(s) == s[Len(s)]

RECURSIVE Insert(_, _)
Insert(name, s) ==
    IF s = <<>> THEN <<name>>
    ELSE IF Rank(name) < Rank(Head(s)) THEN <<name>> \o s
    ELSE <<Head(s)>> \o Insert(name, Tail(s))

\* sorted(names)
RECURSIVE sorted(_)
sorted(s) == IF s = <<>> THEN <<>> ELSE Insert(Head(s), sorted(Tail(s)))

\* len(names) != len(set(names))
HasDuplicates(s) == Len(s) # Cardinality(SeqToSet(s))

\* list.remove(x): drops the first occurrence
RemoveFirst(s, x) ==
    LET i == CHOOSE j \in 1 .. Len(s) : s[j] = x /\ \A h \in 1 .. j - 1 : s[h] # x
    IN  SubSeq(s, 1, i - 1) \o SubSeq(s, i + 1, Len(s))

Abs(n) == IF n < 0 THEN -n ELSE n

Max2(a, b) == IF a > b THEN a ELSE b

RelTolInv == 1000000000

\* math.isclose(a, b) with rel_tol = 1e-09, abs_tol = 0, on integral values
isclose(a, b) == Abs(a - b) <= Max2(Abs(a), Abs(b)) \div RelTolInv

IsNumber(val) == val.k \in {"float", "int"}

\* the rows of a Gf.Matrix4d, as lists of floats
MatrixRows(n) ==
    [i \in 1 .. 4 |->
        [j \in 1 .. 4 |->
            FloatVal(IF i = 4 /\ j = 1 THEN n ELSE IF i = j THEN 1 ELSE 0)]]

\* _standardize_val_for_comparison: a Matrix becomes the flat list of its
\* entries, a str stays, any other iterable becomes list(val), which for a
\* dict is the list of its keys
standardize_val_for_comparison(val) ==
    IF val.k = "matrix" THEN
        ListVal([i \in 1 .. 16 |-> MatrixRows(val.v)[((i - 1) \div 4) + 1][((i - 1) % 4) + 1]])
    ELSE IF val.k = "dict" THEN ListVal([i \in 1 .. Len(val.v) |-> val.v[i][1]])
    ELSE val

\* vals_close raises TypeError: math.isclose on a value that is not a number;
\* all(...) over the items of two lists stops at the first pair not close
RECURSIVE vals_close_raises(_, _)
RECURSIVE vals_close(_, _)
vals_close_raises(val1, val2) ==
    LET a == standardize_val_for_comparison(val1)
        b == standardize_val_for_comparison(val2)
    IN  IF a.k = "float" \/ b.k = "float" THEN ~(IsNumber(a) /\ IsNumber(b))
        ELSE IF a.k # b.k THEN FALSE
        ELSE IF a.k = "list" THEN
            /\ Len(a.v) = Len(b.v)
            /\ \E i \in 1 .. Len(a.v) :
                  /\ vals_close_raises(a.v[i], b.v[i])
                  /\ \A j \in 1 .. i - 1 : vals_close(a.v[j], b.v[j])
        ELSE FALSE

vals_close(val1, val2) ==
    LET a == standardize_val_for_comparison(val1)
        b == standardize_val_for_comparison(val2)
    IN  IF a.k = "float" \/ b.k = "float" THEN
            IsNumber(a) /\ IsNumber(b) /\ isclose(a.v, b.v)
        ELSE IF a.k # b.k THEN FALSE
        ELSE IF a.k = "list" THEN
            /\ Len(a.v) = Len(b.v)
            /\ \A i \in 1 .. Len(a.v) : vals_close(a.v[i], b.v[i])
        ELSE a = b

\* Python's == on two values
RECURSIVE PyEq(_, _)
PyEq(a, b) ==
    IF IsNumber(a) /\ IsNumber(b) THEN a.v = b.v
    ELSE IF a.k # b.k THEN FALSE
    ELSE IF a.k = "list" THEN
        Len(a.v) = Len(b.v) /\ \A i \in 1 .. Len(a.v) : PyEq(a.v[i], b.v[i])
    ELSE a = b

\* new > old: numbers by value, lists by their first items that are not equal
RECURSIVE GreaterThan(_, _)
GreaterThan(new, old) ==
    IF new.k = "list" THEN
        IF new.v = <<>> THEN FALSE
        ELSE IF old.v = <<>> THEN TRUE
        ELSE IF PyEq(Head(new.v), Head(old.v)) THEN
            GreaterThan(ListVal(Tail(new.v)), ListVal(Tail(old.v)))
        ELSE GreaterThan(Head(new.v), Head(old.v))
    ELSE new.v > old.v

\* new > old is defined: two numbers, or two lists whose first items that are
\* not equal can be compared
RECURSIVE Comparable(_, _)
Comparable(new, old) ==
    IF IsNumber(new) /\ IsNumber(old) THEN TRUE
    ELSE IF new.k = "list" /\ old.k = "list" THEN
        IF new.v = <<>> \/ old.v = <<>> THEN TRUE
        ELSE IF PyEq(Head(new.v), Head(old.v)) THEN
            Comparable(ListVal(Tail(new.v)), ListVal(Tail(old.v)))
        ELSE Comparable(Head(new.v), Head(old.v))
    ELSE new.k = "str" /\ old.k = "str"

\* to_json_val: an int, float, str or None is returned as it is, any other
\* iterable as the list of its converted items; a Gf.Matrix4d iterates its rows
to_json_val(obj) ==
    IF obj.k = "matrix" THEN
        ListVal([i \in 1 .. 4 |-> ListVal(MatrixRows(obj.v)[i])])
    ELSE obj

\* mutant: the schema's fallback is preferred to DEFAULT_OVERRIDES
get_fallback_schema_first(name) ==
    IF name \in DOMAIN SchemaFallback THEN SchemaFallback[name]
    ELSE IF name \in DOMAIN DEFAULT_OVERRIDES THEN DEFAULT_OVERRIDES[name]
    ELSE IF name \in DOMAIN GfDefault THEN GfDefault[name]
    ELSE NoneVal

get_fallback(name) ==
    IF name \in DOMAIN DEFAULT_OVERRIDES THEN DEFAULT_OVERRIDES[name]
    ELSE IF name \notin DOMAIN SchemaFallback THEN
        IF name \in DOMAIN GfDefault THEN GfDefault[name] ELSE NoneVal
    ELSE SchemaFallback[name]

RECURSIVE get_override_group_from(_, _, _)
get_override_group_from(ranges, i, frame) ==
    IF i > Len(ranges) THEN None
    ELSE IF frame >= ranges[i][1] /\ frame <= ranges[i][2] THEN ranges[i]
    ELSE get_override_group_from(ranges, i + 1, frame)

get_override_group(light, frame) ==
    get_override_group_from(OverrideRanges(light), 1, frame)

-----------------------------------------------------------------------------
(* FrameGroupTracker *)

\* A tracker is a record
\*   [light_name, frame_vals, varying, constants, defaults, override_group]
\* frame_vals is a sequence of [frame |-> f, vals |-> [name -> value]] in dict
\* order; varying is a function name -> increasing (BOOLEAN).

frames(t) == [i \in 1 .. Len(t.frame_vals) |-> t.frame_vals[i].frame]

\* the names of a set, as a sorted list
SortedNames(S) == SelectSeq(NameOrder, LAMBDA n : n \in S)

attrs(t) == sorted(t.constants \o t.defaults \o SortedNames(DOMAIN t.varying))

\* is_sorted(vals): only ever compares with the first element, which is the
\* one `last` is bound to
is_sorted(s) == \A i \in 2 .. Len(s) : ~(s[1] > s[i])

\* validate(): the exception it raises, "" if none
validate(t) ==
    IF \E i \in 1 .. Len(t.frame_vals) :
            get_override_group(t.light_name, t.frame_vals[i].frame) # t.override_group
        THEN "RuntimeError"
    ELSE IF HasDuplicates(attrs(t)) THEN "ValueError"
    ELSE IF Len(t.frame_vals) = 0 THEN "ValueError"
    ELSE IF Len(t.frame_vals) = 1 /\ DOMAIN t.varying # {} THEN "ValueError"
    ELSE IF ~is_sorted(frames(t)) THEN "ValueError"
    ELSE IF \E i \in 1 .. Len(t.frame_vals) :
            DOMAIN t.frame_vals[i].vals # SeqToSet(attrs(t))
        THEN "ValueError"
    ELSE ""

\* sorted(self.frame_vals): the frame keys in increasing order
RECURSIVE InsertFrame(_, _)
InsertFrame(fv, s) ==
    IF s = <<>> THEN <<fv>>
    ELSE IF fv.frame < Head(s).frame THEN <<fv>> \o s
    ELSE <<Head(s)>> \o InsertFrame(fv, Tail(s))

RECURSIVE sorted_frames(_)
sorted_frames(s) ==
    IF s = <<>> THEN <<>> ELSE InsertFrame(Head(s), sorted_frames(Tail(s)))

\* the dataclass constructor followed by __post_init__:
\* [t |-> the tracker, err |-> the exception raised, "" if none]
post_init(light, frame_vals, varying, constants, defaults) ==
    LET cs == sorted(constants)
        ds == sorted(defaults)
        t0 == [light_name |-> light, frame_vals |-> frame_vals, varying |-> varying,
               constants |-> cs, defaults |-> ds, override_group |-> None]
        names == SeqToSet(attrs(t0))
        sfv == sorted_frames(frame_vals)
        missing == \E i \in 1 .. Len(sfv) : ~(names \subseteq DOMAIN sfv[i].vals)
        fv == [i \in 1 .. Len(sfv) |->
                 [frame |-> sfv[i].frame,
                  vals |-> [n \in names \cap DOMAIN sfv[i].vals |-> sfv[i].vals[n]]]]
        t1 == [t0 EXCEPT !.frame_vals = fv,
                         !.override_group = get_override_group(light, fv[1].frame)]
    IN  IF missing THEN [t |-> t0, err |-> "KeyError"]
        ELSE [t |-> t1, err |-> validate(t1)]

\* find_varying_vals raises: vals_close or `new > old` on values it cannot compare
find_varying_vals_raises(this_vals, other_vals, names) ==
    \E n \in names :
        \/ vals_close_raises(this_vals[n], other_vals[n])
        \/ /\ ~vals_close(this_vals[n], other_vals[n])
           /\ ~Comparable(other_vals[n], this_vals[n])

\* mutant: the direction is computed as old > new
find_varying_vals_inverted(this_vals, other_vals, names) ==
    [n \in {m \in names : ~vals_close(this_vals[m], other_vals[m])} |->
        GreaterThan(this_vals[n], other_vals[n])]

\* find_varying_vals: attr name -> whether it increased, for the attrs that differ
find_varying_vals(this_vals, other_vals, names) ==
    [n \in {m \in names : ~vals_close(this_vals[m], other_vals[m])} |->
        GreaterThan(other_vals[n], this_vals[n])]

\* mutant: a new varying attribute stays in constants / defaults
RECURSIVE add_varying_keeps(_, _, _)
add_varying_keeps(t, new_varying, names) ==
    IF names = <<>> THEN [t |-> t, err |-> ""]
    ELSE LET attr == Head(names) IN
        IF attr \in DOMAIN t.varying THEN add_varying_keeps(t, new_varying, Tail(names))
        ELSE add_varying_keeps(
                [t EXCEPT !.varying = [n \in DOMAIN t.varying \cup {attr} |->
                                          IF n = attr THEN new_varying[attr] ELSE t.varying[n]]],
                new_varying, Tail(names))

\* mutant: a new varying attribute is taken out of constants only
RECURSIVE add_varying_keeps_default(_, _, _)
add_varying_keeps_default(t, new_varying, names) ==
    IF names = <<>> THEN [t |-> t, err |-> ""]
    ELSE LET attr == Head(names) IN
        IF attr \in DOMAIN t.varying THEN
            add_varying_keeps_default(t, new_varying, Tail(names))
        ELSE LET v == [n \in DOMAIN t.varying \cup {attr} |->
                          IF n = attr THEN new_varying[attr] ELSE t.varying[n]]
                 t1 == [t EXCEPT !.varying = v]
             IN  IF attr \in SeqToSet(t.constants) THEN
                     add_varying_keeps_default(
                         [t1 EXCEPT !.constants = RemoveFirst(t.constants, attr)],
                         new_varying, Tail(names))
                 ELSE add_varying_keeps_default(t1, new_varying, Tail(names))

\* the loop of combine over new_varying.items(): names is the list of keys
\* still to visit; [t, err]
RECURSIVE add_varying(_, _, _)
add_varying(t, new_varying, names) ==
    IF names = <<>> THEN [t |-> t, err |-> ""]
    ELSE LET attr == Head(names) IN
        IF attr \in DOMAIN t.varying THEN add_varying(t, new_varying, Tail(names))
        ELSE LET v == [n \in DOMAIN t.varying \cup {attr} |->
                          IF n = attr THEN new_varying[attr] ELSE t.varying[n]]
                 t1 == [t EXCEPT !.varying = v]
             IN  IF attr \in SeqToSet(t.constants) THEN
                     add_varying([t1 EXCEPT !.constants = RemoveFirst(t.constants, attr)],
                                 new_varying, Tail(names))
                 ELSE IF attr \in SeqToSet(t.defaults) THEN
                     add_varying([t1 EXCEPT !.defaults = RemoveFirst(t.defaults, attr)],
                                 new_varying, Tail(names))
                 ELSE [t |-> t1, err |-> "RuntimeError"]

\* dict.update: a known key keeps its place, a new key goes last
RECURSIVE update(_, _)
update(fv, other_fv) ==
    IF other_fv = <<>> THEN fv
    ELSE LET o == Head(other_fv)
             known == \E i \in 1 .. Len(fv) : fv[i].frame = o.frame
             fv1 == IF known
                    THEN [i \in 1 .. Len(fv) |-> IF fv[i].frame = o.frame THEN o ELSE fv[i]]
                    ELSE Append(fv, o)
         IN  update(fv1, Tail(other_fv))

MaxFrameOf(t) == CHOOSE f \in SeqToSet(frames(t)) : \A g \in SeqToSet(frames(t)) : g <= f

MinFrameOf(t) == CHOOSE f \in SeqToSet(frames(t)) : \A g \in SeqToSet(frames(t)) : f <= g

\* mutant: the continuation rule compares the attribute only, not its direction
can_combine_any_direction(self, other, new_varying) ==
    IF self.override_group # None \/ other.override_group # None THEN
        self.override_group = other.override_group
    ELSE IF DOMAIN self.varying = {} THEN
        Cardinality(DOMAIN new_varying) = 1
    ELSE
        Cardinality(DOMAIN new_varying) = 1 /\ DOMAIN new_varying = DOMAIN self.varying

\* mutant: the first divergence accepts any non-empty diff
can_combine_first_any(self, other, new_varying) ==
    IF self.override_group # None \/ other.override_group # None THEN
        self.override_group = other.override_group
    ELSE IF DOMAIN self.varying = {} THEN
        Cardinality(DOMAIN new_varying) >= 1
    ELSE
        Cardinality(DOMAIN new_varying) = 1 /\ new_varying = self.varying

\* mutant: the continuation rule never holds (identity instead of equality)
can_combine_never_continues(self, other, new_varying) ==
    IF self.override_group # None \/ other.override_group # None THEN
        self.override_group = other.override_group
    ELSE IF DOMAIN self.varying = {} THEN
        Cardinality(DOMAIN new_varying) = 1
    ELSE
        FALSE

\* mutant: the first divergence also accepts an empty diff
can_combine_first_at_most_one(self, other, new_varying) ==
    IF self.override_group # None \/ other.override_group # None THEN
        self.override_group = other.override_group
    ELSE IF DOMAIN self.varying = {} THEN
        Cardinality(DOMAIN new_varying) <= 1
    ELSE
        Cardinality(DOMAIN new_varying) = 1 /\ new_varying = self.varying

\* mutant: the continuation rule accepts any single differing attribute
can_combine_any_single(self, other, new_varying) ==
    IF self.override_group # None \/ other.override_group # None THEN
        self.override_group = other.override_group
    ELSE
        Cardinality(DOMAIN new_varying) = 1

\* mutant: the override groups of tracker and candidate are not looked at
can_combine_ignores_override(self, other, new_varying) ==
    IF DOMAIN self.varying = {} THEN
        Cardinality(DOMAIN new_varying) = 1
    ELSE
        Cardinality(DOMAIN new_varying) = 1 /\ new_varying = self.varying

\* mutant: the override rule applies only when both are in an override range
can_combine_both_in_range(self, other, new_varying) ==
    IF self.override_group # None /\ other.override_group # None THEN
        self.override_group = other.override_group
    ELSE IF DOMAIN self.varying = {} THEN
        Cardinality(DOMAIN new_varying) = 1
    ELSE
        Cardinality(DOMAIN new_varying) = 1 /\ new_varying = self.varying

\* mutant: the continuation rule also accepts a frame where nothing differs
can_combine_continues_on_pause(self, other, new_varying) ==
    IF self.override_group # None \/ other.override_group # None THEN
        self.override_group = other.override_group
    ELSE IF DOMAIN self.varying = {} THEN
        Cardinality(DOMAIN new_varying) = 1
    ELSE
        \/ Cardinality(DOMAIN new_varying) = 1 /\ new_varying = self.varying
        \/ DOMAIN new_varying = {}

\* whether combine decides the frame can be added
can_combine(self, other, new_varying) ==
    IF self.override_group # None \/ other.override_group # None THEN
        self.override_group = other.override_group
    ELSE IF DOMAIN self.varying = {} THEN
        Cardinality(DOMAIN new_varying) = 1
    ELSE
        Cardinality(DOMAIN new_varying) = 1 /\ new_varying = self.varying

\* mutant: the new frame is compared with the first frame of the tracker
this_frame_vals_first(self) == self.frame_vals[1].vals

\* the values at this_frame = self.frames()[-1]
this_frame_vals(self) == Last(self.frame_vals).vals

\* mutant: a candidate whose frame is not greater than the tracker's frames is
\* rejected like any frame that does not fit
combine_rejects_old_frame(self, other) ==
    LET this_vals == this_frame_vals(self)
        other_vals == other.frame_vals[1].vals
        names == SeqToSet(attrs(self))
        new_varying == find_varying_vals(this_vals, other_vals, names)
        added == add_varying(self, new_varying, SortedNames(DOMAIN new_varying))
        t1 == [added.t EXCEPT !.frame_vals = update(added.t.frame_vals, other.frame_vals)]
    IN  IF attrs(self) # attrs(other) THEN
            [t |-> self, combined |-> FALSE, err |-> "ValueError"]
        ELSE IF Len(other.frame_vals) # 1 THEN
            [t |-> self, combined |-> FALSE, err |-> "ValueError"]
        ELSE IF MaxFrameOf(self) >= MinFrameOf(other) THEN
            [t |-> self, combined |-> FALSE, err |-> ""]
        ELSE IF find_varying_vals_raises(this_vals, other_vals, names) THEN
            [t |-> self, combined |-> FALSE, err |-> "TypeError"]
        ELSE IF ~can_combine(self, other, new_varying) THEN
            [t |-> self, combined |-> FALSE, err |-> ""]
        ELSE IF added.err # "" THEN
            [t |-> added.t, combined |-> FALSE, err |-> added.err]
        ELSE
            [t |-> t1, combined |-> validate(t1) = "", err |-> validate(t1)]

\* mutant: the attributes that differ are moved to varying before combine
\* decides, so a rejected call leaves them there
combine_marks_before_deciding(self, other) ==
    LET this_vals == this_frame_vals(self)
        other_vals == other.frame_vals[1].vals
        names == SeqToSet(attrs(self))
        new_varying == find_varying_vals(this_vals, other_vals, names)
        added == add_varying(self, new_varying, SortedNames(DOMAIN new_varying))
        t1 == [added.t EXCEPT !.frame_vals = update(added.t.frame_vals, other.frame_vals)]
    IN  IF attrs(self) # attrs(other) THEN
            [t |-> self, combined |-> FALSE, err |-> "ValueError"]
        ELSE IF Len(other.frame_vals) # 1 THEN
            [t |-> self, combined |-> FALSE, err |-> "ValueError"]
        ELSE IF MaxFrameOf(self) >= MinFrameOf(other) THEN
            [t |-> self, combined |-> FALSE, err |-> "ValueError"]
        ELSE IF find_varying_vals_raises(this_vals, other_vals, names) THEN
            [t |-> self, combined |-> FALSE, err |-> "TypeError"]
        ELSE IF added.err # "" THEN
            [t |-> added.t, combined |-> FALSE, err |-> added.err]
        ELSE IF ~can_combine(self, other, new_varying) THEN
            [t |-> added.t, combined |-> FALSE, err |-> ""]
        ELSE
            [t |-> t1, combined |-> validate(t1) = "", err |-> validate(t1)]

\* combine(self, other):
\* [t |-> self afterwards, combined |-> the value returned, err |-> the exception]
combine(self, other) ==
    LET this_vals == this_frame_vals(self)
        other_vals == other.frame_vals[1].vals
        names == SeqToSet(attrs(self))
        new_varying == find_varying_vals(this_vals, other_vals, names)
        added == add_varying(self, new_varying, SortedNames(DOMAIN new_varying))
        t1 == [added.t EXCEPT !.frame_vals = update(added.t.frame_vals, other.frame_vals)]
    IN  IF attrs(self) # attrs(other) THEN
            [t |-> self, combined |-> FALSE, err |-> "ValueError"]
        ELSE IF Len(other.frame_vals) # 1 THEN
            [t |-> self, combined |-> FALSE, err |-> "ValueError"]
        ELSE IF MaxFrameOf(self) >= MinFrameOf(other) THEN
            [t |-> self, combined |-> FALSE, err |-> "ValueError"]
        ELSE IF find_varying_vals_raises(this_vals, other_vals, names) THEN
            [t |-> self, combined |-> FALSE, err |-> "TypeError"]
        ELSE IF ~can_combine(self, other, new_varying) THEN
            [t |-> self, combined |-> FALSE, err |-> ""]
        ELSE IF added.err # "" THEN
            [t |-> added.t, combined |-> FALSE, err |-> added.err]
        ELSE
            [t |-> t1, combined |-> validate(t1) = "", err |-> validate(t1)]

\* for_frame: attrs is the key order of vals, vals maps name -> value
for_frame(light, frame, attrs_list, vals, default_vals) ==
    LET default(name) ==
            IF name \in DOMAIN default_vals THEN default_vals[name] ELSE get_fallback(name)
        default_attrs == SelectSeq(attrs_list, LAMBDA n : vals_close(vals[n], default(n)))
        constant_attrs == SelectSeq(attrs_list, LAMBDA n : ~vals_close(vals[n], default(n)))
        made == post_init(light, <<[frame |-> frame, vals |-> vals]>>,
                          <<>>, constant_attrs, default_attrs)
    IN  IF \E n \in SeqToSet(attrs_list) : vals_close_raises(vals[n], default(n))
        THEN [t |-> made.t, err |-> "TypeError"]
        ELSE made

\* the names for_frame calls get_fallback for, in the order of the calls:
\* every name default_vals does not hold, up to the first comparison that raises
RECURSIVE for_frame_lookups(_, _, _)
for_frame_lookups(attrs_list, vals, default_vals) ==
    IF attrs_list = <<>> THEN <<>>
    ELSE LET name == Head(attrs_list)
             missing == name \notin DOMAIN default_vals
             default == IF missing THEN get_fallback(name) ELSE default_vals[name]
             cache == [n \in DOMAIN default_vals \cup {name} |->
                          IF n = name THEN default ELSE default_vals[n]]
             here == IF missing THEN <<name>> ELSE <<>>
         IN  IF vals_close_raises(vals[name], default) THEN here
             ELSE here \o for_frame_lookups(Tail(attrs_list), vals, cache)

\* the get_fallback calls of for_frame_attrs: for_frame is called with the
\* empty dict that replaced the caller's default_vals
for_frame_attrs_lookups(attrs_list, got, default_vals) ==
    LET vals == [n \in SeqToSet(attrs_list) |-> to_json_val(got[n])]
    IN  IF HasDuplicates(sorted(attrs_list)) THEN <<>>
        ELSE for_frame_lookups(attrs_list, vals, <<>>)

\* for_frame_attrs: got maps each attribute to attr.Get(frame); the
\* default_vals the caller passes is replaced by an empty dict
for_frame_attrs(light, frame, attrs_list, got, default_vals) ==
    LET all_names == sorted(attrs_list)
        vals == [n \in SeqToSet(attrs_list) |-> to_json_val(got[n])]
        made == for_frame(light, frame, attrs_list, vals, <<>>)
    IN  IF HasDuplicates(all_names) THEN [t |-> made.t, err |-> "ValueError"]
        ELSE made

\* to_frame_group: [frames, varying, non_default_constants]
to_frame_group(t) ==
    LET fs == frames(t)
        varying_vals ==
            [attr \in DOMAIN t.varying |->
                [f \in SeqToSet(fs) |->
                    (CHOOSE fv \in SeqToSet(t.frame_vals) : fv.frame = f).vals[attr]]]
        first_vals == t.frame_vals[1].vals
        constants == [n \in {m \in SeqToSet(t.constants) : ~IsXformOp(m)} |-> first_vals[n]]
    IN  [frames |-> <<fs[1], Last(fs)>>,
         varying |-> varying_vals,
         non_default_constants |-> constants]

-----------------------------------------------------------------------------
(* FrameGroupFinder *)

\* the frame lists find is run on: start, start + step, ... within 1 .. MaxFrame
FrameLists ==
    {s \in {[i \in 1 .. n |-> start + (i - 1) * step] :
                start \in 1 .. MaxFrame, step \in 1 .. MaxStep, n \in 1 .. MaxLen} :
        s[Len(s)] <= MaxFrame}

\* the attribute lists a light is run with
AttrLists ==
    {<<NameOrder[1]>>, <<NameOrder[2]>>, <<NameOrder[1], NameOrder[2]>>,
     <<NameOrder[2], NameOrder[1]>>, <<NameOrder[2], NameOrder[2]>>, <<NameOrder[3]>>}

Init ==
    /\ light_name \in LightNames
    /\ all_attrs \in AttrLists
    /\ all_frames \in FrameLists
    /\ frame_groups = <<>>
    /\ stage = <<>>
    /\ pc = "run"
    /\ err = ""
    /\ result = <<>>
    /\ call = None
    /\ fallback_calls = [n \in AttrNames |-> 0]
    /\ compared = None
    /\ NoProgram

\* mutant: a frame combine rejects is not appended as a new group
run_frame_drops_rejected(groups, made) ==
    IF made.err # "" THEN [groups |-> groups, err |-> made.err]
    ELSE IF groups = <<>> THEN [groups |-> <<made.t>>, err |-> ""]
    ELSE LET c == combine(Last(groups), made.t)
         IN  [groups |-> [groups EXCEPT ![Len(groups)] = c.t], err |-> c.err]

\* run_frame, given the tracker for_frame_attrs built: the new frame_groups
\* and the exception raised
run_frame(groups, made) ==
    IF made.err # "" THEN [groups |-> groups, err |-> made.err]
    ELSE IF groups = <<>> THEN [groups |-> <<made.t>>, err |-> ""]
    ELSE LET c == combine(Last(groups), made.t)
             merged == [groups EXCEPT ![Len(groups)] = c.t]
         IN  IF c.err # "" THEN [groups |-> merged, err |-> c.err]
             ELSE IF ~c.combined THEN [groups |-> Append(merged, made.t), err |-> ""]
             ELSE [groups |-> merged, err |-> ""]

\* the combine call run_frame makes, None when it makes none:
\* [self |-> the last tracker before the call, other |-> the candidate,
\*  combined, err |-> the outcome, after |-> the last tracker after the call]
run_frame_call(groups, made) ==
    IF made.err # "" \/ groups = <<>> THEN None
    ELSE LET c == combine(Last(groups), made.t)
         IN  [self |-> Last(groups), other |-> made.t,
              combined |-> c.combined, err |-> c.err, after |-> c.t]

\* fallback_calls after get_fallback was called for each name of lookups
count_lookups(calls, lookups) ==
    [n \in DOMAIN calls |->
        calls[n] + Cardinality({i \in 1 .. Len(lookups) : lookups[i] = n})]

\* one iteration of FrameGroupFinder.run: run_frame on the next frame
RunFrame ==
    /\ pc = "run"
    /\ Len(stage) < Len(all_frames)
    /\ LET frame == all_frames[Len(stage) + 1] IN
       \E got \in [SeqToSet(all_attrs) -> UNION {AttrVals(n) : n \in AttrNames}] :
          /\ \A n \in DOMAIN got : got[n] \in AttrVals(n)
          /\ LET made == for_frame_attrs(light_name, frame, all_attrs, got, <<>>)
                 r == run_frame(frame_groups, made)
             IN  /\ frame_groups' = r.groups
                 /\ err' = r.err
                 /\ pc' = IF r.err # "" THEN "raised" ELSE "run"
                 /\ stage' = Append(stage, got)
                 /\ call' = run_frame_call(frame_groups, made)
                 /\ fallback_calls' =
                       count_lookups(fallback_calls,
                                     for_frame_attrs_lookups(all_attrs, got, <<>>))
    /\ UNCHANGED <<light_name, all_attrs, all_frames, result, compared>>
    /\ UNCHANGED program_vars

\* the end of find: every tracker is converted by to_frame_group
Return ==
    /\ pc = "run"
    /\ Len(stage) = Len(all_frames)
    /\ result' = [i \in 1 .. Len(frame_groups) |-> to_frame_group(frame_groups[i])]
    /\ pc' = "done"
    /\ UNCHANGED <<light_name, all_attrs, all_frames, frame_groups, stage, err,
                   call, fallback_calls, compared>>
    /\ UNCHANGED program_vars

Next == RunFrame \/ Return

Spec == Init /\ [][Next]_vars

-----------------------------------------------------------------------------
(* find on the attributes of a light whose transform is animated *)

XformAttrLists == {<<NameOrder[4]>>, <<NameOrder[1], NameOrder[4]>>}

InitXform ==
    /\ light_name = "dome"
    /\ all_attrs \in XformAttrLists
    /\ all_frames \in FrameLists
    /\ frame_groups = <<>>
    /\ stage = <<>>
    /\ pc = "run"
    /\ err = ""
    /\ result = <<>>
    /\ call = None
    /\ fallback_calls = [n \in AttrNames |-> 0]
    /\ compared = None
    /\ NoProgram

SpecXform == InitXform /\ [][Next]_vars

-----------------------------------------------------------------------------
(* FrameGroupTracker.combine called on any tracker with any candidate: find *)
(* on frame lists in any order, and a caller that hands the last tracker a  *)
(* candidate of its own making                                              *)

\* frames before, between and inside the override ranges of the lights
CombineFrames == {1, 2, 10, 11}

CombineFrameLists ==
    UNION {[1 .. n -> CombineFrames] : n \in 1 .. MaxCalls}

CombineAttrLists == {<<NameOrder[1]>>, <<NameOrder[1], NameOrder[2]>>}

\* every value map for the names of an attribute list
ValsOf(attrs_list) ==
    {got \in [SeqToSet(attrs_list) -> UNION {AttrVals(n) : n \in AttrNames}] :
        \A n \in DOMAIN got : got[n] \in AttrVals(n)}

\* the single-frame trackers for_frame builds for a light
SingleFrameTrackers(light) ==
    UNION {{for_frame(light, f, a, vals, <<>>).t : f \in CombineFrames, vals \in ValsOf(a)} :
            a \in CombineAttrLists}

\* the candidates a caller can build: the single-frame trackers, and the
\* trackers that took a second frame
Candidates ==
    [light \in LightNames |->
        SingleFrameTrackers(light) \cup
        UNION {{combine(t, u).t : u \in {v \in SingleFrameTrackers(light) :
                                            /\ attrs(v) = attrs(t)
                                            /\ v.frame_vals[1].frame > t.frame_vals[1].frame
                                            /\ combine(t, v).combined}} :
                t \in SingleFrameTrackers(light)}]

InitCombine ==
    /\ light_name \in LightNames
    /\ all_attrs \in CombineAttrLists
    /\ all_frames \in CombineFrameLists
    /\ frame_groups = <<>>
    /\ stage = <<>>
    /\ pc = "run"
    /\ err = ""
    /\ result = <<>>
    /\ call = None
    /\ fallback_calls = [n \in AttrNames |-> 0]
    /\ compared = None
    /\ NoProgram

\* last_group.combine(other) called by the caller of FrameGroupFinder.run,
\* once run is over
CombineOther ==
    /\ pc = "run"
    /\ Len(stage) = Len(all_frames)
    /\ \E other \in Candidates[light_name] :
          LET c == combine(Last(frame_groups), other) IN
          /\ frame_groups' = [frame_groups EXCEPT ![Len(frame_groups)] = c.t]
          /\ err' = c.err
          /\ pc' = IF c.err # "" THEN "raised" ELSE "called"
          /\ call' = [self |-> Last(frame_groups), other |-> other,
                      combined |-> c.combined, err |-> c.err, after |-> c.t]
    /\ UNCHANGED <<light_name, all_attrs, all_frames, stage, result, fallback_calls,
                   compared>>
    /\ UNCHANGED program_vars

NextCombine == RunFrame \/ Return \/ CombineOther

SpecCombine == InitCombine /\ [][NextCombine]_vars

-----------------------------------------------------------------------------
(* vals_close called on any two values *)

\* values of every kind vals_close tells apart: floats, ints, None, strings,
\* lists, a dict and a matrix
CompareVals ==
    {FloatVal(1), FloatVal(2), IntVal(1), IntVal(2), NoneVal, StrVal(1), StrVal(2),
     ListVal(<<>>), ListVal(<<FloatVal(1)>>), ListVal(<<IntVal(1)>>), ListVal(<<StrVal(1)>>),
     ListVal(<<IntVal(1), NoneVal>>), ListVal(<<IntVal(2), FloatVal(1)>>),
     DictVal(<< <<StrVal(1), IntVal(1)>> >>), MatrixVal(0)}

InitValsClose ==
    /\ compared \in {[val1 |-> a, val2 |-> b, returned |-> None] : a, b \in CompareVals}
    /\ light_name = "dome"
    /\ all_attrs = <<>>
    /\ all_frames = <<>>
    /\ frame_groups = <<>>
    /\ stage = <<>>
    /\ pc = "run"
    /\ err = ""
    /\ result = <<>>
    /\ call = None
    /\ fallback_calls = [n \in AttrNames |-> 0]
    /\ NoProgram

\* vals_close(val1, val2): returns, or raises the TypeError of math.isclose
ValsClose ==
    /\ pc = "run"
    /\ compared # None
    /\ IF vals_close_raises(compared.val1, compared.val2)
       THEN /\ pc' = "raised"
            /\ err' = "TypeError"
            /\ UNCHANGED compared
       ELSE /\ pc' = "done"
            /\ compared' =
                  [compared EXCEPT !.returned = vals_close(compared.val1, compared.val2)]
            /\ UNCHANGED err
    /\ UNCHANGED <<light_name, all_attrs, all_frames, frame_groups, stage, result,
                   call, fallback_calls>>
    /\ UNCHANGED program_vars

NextValsClose == ValsClose

SpecValsClose == InitValsClose /\ [][NextValsClose]_vars

-----------------------------------------------------------------------------
(* The finder at rest, for the specifications of the other programs *)

FinderIdle ==
    /\ light_name = "dome"
    /\ all_attrs = <<>>
    /\ all_frames = <<>>
    /\ frame_groups = <<>>
    /\ stage = <<>>
    /\ pc = "run"
    /\ err = ""
    /\ result = <<>>
    /\ call = None
    /\ fallback_calls = [n \in AttrNames |-> 0]
    /\ compared = None

-----------------------------------------------------------------------------
(* gen_light_param_descriptions(stage, errors) *)

\* A light of the stage: its prim path, its name (get_light_name) and whether
\* get_light_name / from_light_prim raises on it. Paths are positions on the
\* stage; the description of a light is identified by the light's path.
StageLights ==
    UNION {{ls \in [1 .. n -> [path : 1 .. n, name : {"dome", "distant"}, fails : BOOLEAN]] :
               \A i \in 1 .. n : ls[i].path = i} : n \in 0 .. MaxLights}

\* gen = [lights, errors, i |-> the lights processed, all_descs |-> name -> path
\*        of the description, warnings |-> the paths warned about,
\*        pc |-> "loop" | "returned" | "raised", exc |-> the exception]
InitGen ==
    /\ FinderIdle
    /\ gen \in [lights : StageLights, errors : {"raise", "warn"}, i : {0},
                 all_descs : {<<>>}, warnings : {<<>>}, pc : {"loop"}, exc : {""}]
    /\ images = None
    /\ persisted = None
    /\ checked = None
    /\ mover = None
    /\ recorder = None

\* mutant: a light whose name is already described replaces the description
process_light_overwrites(g) ==
    LET light == g.lights[g.i + 1]
        g1 == [g EXCEPT !.i = g.i + 1]
        failed == light.fails
        warned == [g1 EXCEPT !.warnings = Append(g.warnings, light.path)]
    IN  IF failed THEN
            IF g.errors = "raise"
            THEN [warned EXCEPT !.pc = "raised", !.exc = "Exception"]
            ELSE warned
        ELSE [g1 EXCEPT !.all_descs =
                 [n \in DOMAIN g.all_descs \cup {light.name} |->
                     IF n = light.name THEN light.path ELSE g.all_descs[n]]]

\* the body of `for light in lights`: the try block, and the except block
\* that prints the warning and re-raises when errors == "raise"
process_light(g) ==
    LET light == g.lights[g.i + 1]
        g1 == [g EXCEPT !.i = g.i + 1]
        failed == light.fails \/ light.name \in DOMAIN g.all_descs
        exc == IF light.fails THEN "Exception" ELSE "ValueError"
        warned == [g1 EXCEPT !.warnings = Append(g.warnings, light.path)]
    IN  IF failed THEN
            IF g.errors = "raise"
            THEN [warned EXCEPT !.pc = "raised", !.exc = exc]
            ELSE warned
        ELSE [g1 EXCEPT !.all_descs =
                 [n \in DOMAIN g.all_descs \cup {light.name} |->
                     IF n = light.name THEN light.path ELSE g.all_descs[n]]]

\* `if not lights: raise RuntimeError`
GenNoLights ==
    /\ gen # None
    /\ gen.pc = "loop"
    /\ gen.i = 0
    /\ gen.lights = <<>>
    /\ gen' = [gen EXCEPT !.pc = "raised", !.exc = "RuntimeError"]
    /\ UNCHANGED finder_vars
    /\ UNCHANGED <<images, persisted, checked, mover, recorder>>

GenLight ==
    /\ gen # None
    /\ gen.pc = "loop"
    /\ gen.i < Len(gen.lights)
    /\ gen' = process_light(gen)
    /\ UNCHANGED finder_vars
    /\ UNCHANGED <<images, persisted, checked, mover, recorder>>

\* `return all_descs`
GenReturn ==
    /\ gen # None
    /\ gen.pc = "loop"
    /\ gen.lights # <<>>
    /\ gen.i = Len(gen.lights)
    /\ gen' = [gen EXCEPT !.pc = "returned"]
    /\ UNCHANGED finder_vars
    /\ UNCHANGED <<images, persisted, checked, mover, recorder>>

NextGen == GenNoLights \/ GenLight \/ GenReturn

SpecGen == InitGen /\ [][NextGen]_vars

-----------------------------------------------------------------------------
(* gendiffs: gen_images_async and its image tasks *)

\* the default of max_concurrency in gen_images_async, gen_images and
\* gen_diffs, and of the -j option
DefaultConcurrency == 0 - 1

\* mutant: every non-positive value stands for the CPU count
normalize_concurrency_cpu_count(concurrency, NUM_CPUS) ==
    IF concurrency <= 0 THEN NUM_CPUS ELSE concurrency

normalize_concurrency(concurrency, NUM_CPUS) ==
    LET c == IF concurrency <= 0 THEN concurrency + NUM_CPUS ELSE concurrency
    IN  Max2(c, 1)

\* run(args, check): the exit code of the tool is an error only with check
run(returncode, check) ==
    IF returncode # 0 /\ check THEN "raised" ELSE "completed"

\* `not os.path.isfile`: the negation of the function object, whatever the
\* state of the output file
not_isfile(exists) == FALSE

\* mutant: the output file is tested
not_isfile_of_path(exists) == ~exists

update_png(returncode, exists) ==
    IF run(returncode, TRUE) = "raised" THEN "failed"
    ELSE IF not_isfile(exists) THEN "failed"
    ELSE "done"

update_diff(returncode, exists) ==
    IF run(returncode, FALSE) = "raised" THEN "failed"
    ELSE IF not_isfile(exists) THEN "failed"
    ELSE "done"

\* mutant: entering the semaphore takes no permit
acquire_free(permits) == permits

\* asyncio.Semaphore.acquire, once it may proceed, and release
acquire(permits) == permits - 1

release(permits) == permits + 1

\* the tasks queued by queue_png_update / queue_diff_update
ImageTasks ==
    UNION {[1 .. n -> [kind : {"png", "diff"}, st : {"waiting"},
                       returncode : {0}, exists : {FALSE}]] : n \in 0 .. MaxTasks}

\* the callers' max_concurrency: not supplied, or an explicit value
Concurrencies ==
    {[supplied |-> FALSE, value |-> DefaultConcurrency]} \cup
    [supplied : {TRUE}, value : (0 - MaxCpus - 1) .. (MaxCpus + 1)]

\* images = [cpus, supplied, max_concurrency |-> the caller's value,
\*           N |-> the normalized limit, permits |-> the semaphore's value,
\*           tasks, pc |-> "gather" | "returned" | "raised"]
\* after proc_limiter is built and the limited tasks are handed to gather
InitImages ==
    /\ FinderIdle
    /\ gen = None
    /\ \E cpus \in 1 .. MaxCpus, c \in Concurrencies, tasks \in ImageTasks :
          images = [cpus |-> cpus, supplied |-> c.supplied, max_concurrency |-> c.value,
                    N |-> normalize_concurrency(c.value, cpus),
                    permits |-> normalize_concurrency(c.value, cpus),
                    tasks |-> tasks, pc |-> "gather"]
    /\ persisted = None
    /\ checked = None
    /\ mover = None
    /\ recorder = None

\* proc_limited_coroutine enters `async with proc_limiter` and the task
\* starts the external tool
ImgStart ==
    /\ images # None
    /\ images.pc = "gather"
    /\ images.permits > 0
    /\ \E i \in 1 .. Len(images.tasks) :
          /\ images.tasks[i].st = "waiting"
          /\ images' = [images EXCEPT !.permits = acquire(images.permits),
                                      !.tasks[i].st = "running"]
    /\ UNCHANGED finder_vars
    /\ UNCHANGED <<gen, persisted, checked, mover, recorder>>

\* the external tool of a running task ends with an exit code, having
\* written its output file or not; update_png / update_diff finishes or
\* raises, `async with` releases the permit, and the first exception ends
\* gather
ImgFinish ==
    /\ images # None
    /\ images.pc = "gather"
    /\ \E i \in 1 .. Len(images.tasks), returncode \in {0, 1}, exists \in BOOLEAN :
          /\ images.tasks[i].st = "running"
          /\ LET st == IF images.tasks[i].kind = "png"
                       THEN update_png(returncode, exists)
                       ELSE update_diff(returncode, exists)
             IN  images' = [images EXCEPT
                     !.permits = release(images.permits),
                     !.tasks[i] = [kind |-> images.tasks[i].kind, st |-> st,
                                   returncode |-> returncode, exists |-> exists],
                     !.pc = IF st = "failed" THEN "raised" ELSE "gather"]
    /\ UNCHANGED finder_vars
    /\ UNCHANGED <<gen, persisted, checked, mover, recorder>>

\* gather returns when every task is done
ImgReturn ==
    /\ images # None
    /\ images.pc = "gather"
    /\ \A i \in 1 .. Len(images.tasks) : images.tasks[i].st = "done"
    /\ images' = [images EXCEPT !.pc = "returned"]
    /\ UNCHANGED finder_vars
    /\ UNCHANGED <<gen, persisted, checked, mover, recorder>>

NextImages == ImgStart \/ ImgFinish \/ ImgReturn

SpecImages == InitImages /\ [][NextImages]_vars

-----------------------------------------------------------------------------
(* The persisted record: json.dump with DataclassJsonEncoder, json.load,
   LightParamDescription.from_dict and FrameGroup.from_dict *)

\* A frame number or a dict key: an int or a float counted in halves (h = 2
\* is 1 or 1.0, h = 3 is 1.5), or a str of characters.
IntKey(n) == [t |-> "int", h |-> 2 * n, s |-> <<>>]
FloatKey(h) == [t |-> "float", h |-> h, s |-> <<>>]
StrKey(s) == [t |-> "str", h |-> 0, s |-> s]

\* the exception raised in place of a number
Raised(exception) == [t |-> exception, h |-> 0, s |-> <<>>]

Digits == <<"0", "1", "2", "3", "4", "5", "6", "7", "8", "9">>

DigitOf(c) == (CHOOSE d \in 1 .. 10 : Digits[d] = c) - 1

IsDigits(s) == s # <<>> /\ \A i \in 1 .. Len(s) : s[i] \in SeqToSet(Digits)

\* str(n) of a non-negative int
RECURSIVE str_int(_)
str_int(n) ==
    IF n < 10 THEN <<Digits[n + 1]>>
    ELSE str_int(n \div 10) \o <<Digits[(n % 10) + 1]>>

\* float.__repr__ of a non-negative multiple of one half
repr_float(h) == str_int(h \div 2) \o <<".", IF h % 2 = 0 THEN "0" ELSE "5">>

\* the text json writes for a number, as a dict key or as a value
json_number(num) == IF num.t = "int" THEN str_int(num.h \div 2) ELSE repr_float(num.h)

RECURSIVE digits_value(_)
digits_value(s) ==
    IF Len(s) = 1 THEN DigitOf(s[1])
    ELSE 10 * digits_value(SubSeq(s, 1, Len(s) - 1)) + DigitOf(s[Len(s)])

\* int(text): ValueError unless the text is a run of digits
parse_int(s) == IF IsDigits(s) THEN IntKey(digits_value(s)) ELSE Raised("ValueError")

\* float(text), for the texts with at most one digit after the point
parse_float(s) ==
    IF IsDigits(s) THEN FloatKey(2 * digits_value(s))
    ELSE IF /\ Len(s) >= 3
            /\ s[Len(s) - 1] = "."
            /\ IsDigits(SubSeq(s, 1, Len(s) - 2))
            /\ s[Len(s)] \in {"0", "5"}
         THEN FloatKey(2 * digits_value(SubSeq(s, 1, Len(s) - 2))
                         + (IF s[Len(s)] = "5" THEN 1 ELSE 0))
         ELSE Raised("ValueError")

\* the number json reads from a number text: an int without a point
json_parse_number(s) == IF IsDigits(s) THEN parse_int(s) ELSE parse_float(s)

\* mutant: every text becomes a float
to_int_float_as_float(num) ==
    IF num.t \in {"int", "float"} THEN num ELSE parse_float(num.s)

to_int_float(num) ==
    IF num.t \in {"int", "float"} THEN num
    ELSE IF num.t # "str" THEN Raised("TypeError")
    ELSE IF parse_int(num.s) # Raised("ValueError") THEN parse_int(num.s)
    ELSE parse_float(num.s)

\* The JSON text of an attribute value, and the value read from it. Values
\* are what to_json_val returns: numbers, None and lists of them.
RECURSIVE json_dump_val(_)
json_dump_val(val) ==
    IF val.k = "int" THEN [j |-> "number", s |-> str_int(val.v), items |-> <<>>]
    ELSE IF val.k = "float" THEN [j |-> "number", s |-> repr_float(2 * val.v), items |-> <<>>]
    ELSE IF val.k = "list" THEN
        [j |-> "array", s |-> <<>>,
         items |-> [i \in 1 .. Len(val.v) |-> json_dump_val(val.v[i])]]
    ELSE [j |-> "null", s |-> <<>>, items |-> <<>>]

RECURSIVE json_load_val(_)
json_load_val(text) ==
    IF text.j = "number" THEN
        LET num == json_parse_number(text.s)
        IN  IF num.t = "int" THEN IntVal(num.h \div 2) ELSE FloatVal(num.h \div 2)
    ELSE IF text.j = "array" THEN
        ListVal([i \in 1 .. Len(text.items) |-> json_load_val(text.items[i])])
    ELSE NoneVal

\* a FrameRange, and the 2-element list json reads
FrameRange(start, end) == [cls |-> "FrameRange", items |-> <<start, end>>]

\* json.dump of a FrameGroup through dataclasses.asdict: the frames become
\* an array, the keys of every dict are turned to text
json_dump_group(group) ==
    [frames |-> [i \in 1 .. 2 |-> json_number(group.frames.items[i])],
     varying |-> [a \in DOMAIN group.varying |->
         LET framevals == group.varying[a]
         IN  [key \in {json_number(frame) : frame \in DOMAIN framevals} |->
                 json_dump_val(framevals[CHOOSE frame \in DOMAIN framevals :
                                             json_number(frame) = key])]],
     non_default_constants |-> [a \in DOMAIN group.non_default_constants |->
         json_dump_val(group.non_default_constants[a])]]

json_dump(desc) ==
    [frame_groups |-> [i \in 1 .. Len(desc.frame_groups) |-> json_dump_group(desc.frame_groups[i])],
     frames |-> [i \in 1 .. 2 |-> json_number(desc.frames.items[i])]]

\* json.load: arrays are lists, keys are str
json_load_group(text) ==
    [frames |-> [cls |-> "list", items |-> [i \in 1 .. 2 |-> json_parse_number(text.frames[i])]],
     varying |-> [a \in DOMAIN text.varying |->
         [key \in {StrKey(k) : k \in DOMAIN text.varying[a]} |->
             json_load_val(text.varying[a][key.s])]],
     non_default_constants |-> [a \in DOMAIN text.non_default_constants |->
         json_load_val(text.non_default_constants[a])]]

json_load(text) ==
    [frame_groups |-> [i \in 1 .. Len(text.frame_groups) |-> json_load_group(text.frame_groups[i])],
     frames |-> [cls |-> "list", items |-> [i \in 1 .. 2 |-> json_parse_number(text.frames[i])]]]

\* {to_int_float(frame): val for frame, val in framevals.items()}
convert_framevals(framevals) ==
    [frame \in {to_int_float(key) : key \in DOMAIN framevals} |->
        framevals[CHOOSE key \in DOMAIN framevals : to_int_float(key) = frame]]

\* a frame key that to_int_float cannot read
from_dict_raises(data) ==
    \E a \in DOMAIN data.varying : \E key \in DOMAIN data.varying[a] :
        to_int_float(key).t \in {"TypeError", "ValueError"}

\* FrameGroup.from_dict: the group built, and the caller's data afterwards:
\* `data = dict(data)` copies the top level only, so the converted tables are
\* stored into the caller's "varying" dict while its "frames" stay a list
FrameGroup_from_dict(data) ==
    LET varying == [a \in DOMAIN data.varying |-> convert_framevals(data.varying[a])]
    IN  [group |-> [frames |-> FrameRange(data.frames.items[1], data.frames.items[2]),
                    varying |-> varying,
                    non_default_constants |-> data.non_default_constants],
         data |-> [data EXCEPT !.varying = varying]]

LightParamDescription_from_dict(data) ==
    [desc |-> [frame_groups |-> [i \in 1 .. Len(data.frame_groups) |->
                                    FrameGroup_from_dict(data.frame_groups[i]).group],
               frames |-> FrameRange(data.frames.items[1], data.frames.items[2])],
     data |-> [data EXCEPT !.frame_groups =
                  [i \in 1 .. Len(data.frame_groups) |->
                      FrameGroup_from_dict(data.frame_groups[i]).data]]]

\* the frame keys of one varying table: no two keys are equal numbers
FrameKeySets ==
    {{IntKey(1)}, {FloatKey(4)}, {IntKey(1), FloatKey(3)}, {IntKey(12), FloatKey(3)}}

PersistedGroups ==
    [frames : {FrameRange(IntKey(1), IntKey(1)), FrameRange(IntKey(1), IntKey(12))},
     varying : {<<>>} \cup
               UNION {{[a \in {"inputs:exposure"} |-> [key \in keys |-> val]] :
                          val \in {IntVal(1), FloatVal(1)}} : keys \in FrameKeySets},
     non_default_constants :
         {<<>>, [a \in {"xformOp:rotateZ"} |-> ListVal(<<FloatVal(2), NoneVal, IntVal(10)>>)]}]

\* persisted = [desc |-> the description written, pc, text |-> the JSON
\*              written, data |-> what json.load returned, as the caller holds
\*              it, read / reread |-> the results of from_dict]
InitPersisted ==
    /\ FinderIdle
    /\ gen = None
    /\ images = None
    /\ \E n \in 0 .. MaxGroups : \E groups \in [1 .. n -> PersistedGroups] :
          persisted = [desc |-> [frame_groups |-> groups,
                                 frames |-> FrameRange(IntKey(1), IntKey(12))],
                       pc |-> "made", text |-> None, data |-> None,
                       read |-> None, reread |-> None]
    /\ checked = None
    /\ mover = None
    /\ recorder = None

\* write_light_param_descriptions: json.dump
PersistDump ==
    /\ persisted # None
    /\ persisted.pc = "made"
    /\ persisted' = [persisted EXCEPT !.pc = "dumped", !.text = json_dump(persisted.desc)]
    /\ UNCHANGED finder_vars
    /\ UNCHANGED <<gen, images, checked, mover, recorder>>

\* read_descriptions: json.load
PersistLoad ==
    /\ persisted # None
    /\ persisted.pc = "dumped"
    /\ persisted' = [persisted EXCEPT !.pc = "loaded", !.data = json_load(persisted.text)]
    /\ UNCHANGED finder_vars
    /\ UNCHANGED <<gen, images, checked, mover, recorder>>

\* read_descriptions: LightParamDescription.from_dict(data)
PersistFromDict ==
    /\ persisted # None
    /\ persisted.pc = "loaded"
    /\ IF \E i \in 1 .. Len(persisted.data.frame_groups) :
               from_dict_raises(persisted.data.frame_groups[i])
       THEN persisted' = [persisted EXCEPT !.pc = "raised"]
       ELSE LET r == LightParamDescription_from_dict(persisted.data)
            IN  persisted' = [persisted EXCEPT !.pc = "read", !.read = r.desc, !.data = r.data]
    /\ UNCHANGED finder_vars
    /\ UNCHANGED <<gen, images, checked, mover, recorder>>

\* from_dict applied again to the data already converted
PersistFromDictAgain ==
    /\ persisted # None
    /\ persisted.pc = "read"
    /\ IF \E i \in 1 .. Len(persisted.data.frame_groups) :
               from_dict_raises(persisted.data.frame_groups[i])
       THEN persisted' = [persisted EXCEPT !.pc = "raised"]
       ELSE LET r == LightParamDescription_from_dict(persisted.data)
            IN  persisted' = [persisted EXCEPT !.pc = "reread", !.reread = r.desc, !.data = r.data]
    /\ UNCHANGED finder_vars
    /\ UNCHANGED <<gen, images, checked, mover, recorder>>

NextPersisted == PersistDump \/ PersistLoad \/ PersistFromDict \/ PersistFromDictAgain

SpecPersisted == InitPersisted /\ [][NextPersisted]_vars

-----------------------------------------------------------------------------
(* find on a scene whose cone angle moves by steps within the tolerance of
   vals_close: 1/rel_tol, 1/rel_tol + 1 and 1/rel_tol + 2 *)

DriftVals(name) ==
    IF name = "inputs:shaping:cone:angle"
    THEN {FloatVal(RelTolInv), FloatVal(RelTolInv + 1), FloatVal(RelTolInv + 2)}
    ELSE AttrVals(name)

\* the frame lists from_light_prim builds: list(range(start, end + 1))
DriftFrameLists == {s \in FrameLists : s[1] \in {1, 4} /\ s[Len(s)] = s[1] + Len(s) - 1}

InitDrift ==
    /\ light_name \in {"dome", "distant"}
    /\ all_attrs \in {<<NameOrder[2]>>, <<NameOrder[1], NameOrder[2]>>}
    /\ all_frames \in DriftFrameLists
    /\ frame_groups = <<>>
    /\ stage = <<>>
    /\ pc = "run"
    /\ err = ""
    /\ result = <<>>
    /\ call = None
    /\ fallback_calls = [n \in AttrNames |-> 0]
    /\ compared = None
    /\ NoProgram

\* one iteration of FrameGroupFinder.run on the scene of DriftVals
RunFrameDrift ==
    /\ pc = "run"
    /\ Len(stage) < Len(all_frames)
    /\ LET frame == all_frames[Len(stage) + 1] IN
       \E got \in [SeqToSet(all_attrs) -> UNION {DriftVals(n) : n \in AttrNames}] :
          /\ \A n \in DOMAIN got : got[n] \in DriftVals(n)
          /\ LET made == for_frame_attrs(light_name, frame, all_attrs, got, <<>>)
                 r == run_frame(frame_groups, made)
             IN  /\ frame_groups' = r.groups
                 /\ err' = r.err
                 /\ pc' = IF r.err # "" THEN "raised" ELSE "run"
                 /\ stage' = Append(stage, got)
                 /\ call' = run_frame_call(frame_groups, made)
                 /\ fallback_calls' =
                       count_lookups(fallback_calls,
                                     for_frame_attrs_lookups(all_attrs, got, <<>>))
    /\ UNCHANGED <<light_name, all_attrs, all_frames, result, compared>>
    /\ UNCHANGED program_vars

NextDrift == RunFrameDrift \/ Return

SpecDrift == InitDrift /\ [][NextDrift]_vars

-----------------------------------------------------------------------------
(* find on frame lists that hold a whole override range of the light and the
   frames next to it *)

\* for every override range (s, e) of the light: the frames s - 1 .. e + 1
OverrideFrameLists(light) ==
    {LET lo == Max2(OverrideRanges(light)[r][1] - 1, 1)
         hi == OverrideRanges(light)[r][2] + 1
     IN  [i \in 1 .. hi - lo + 1 |-> lo + i - 1] :
        r \in 1 .. Len(OverrideRanges(light))}

\* two attributes are run on the lists that start at frame 1, one attribute
\* on every list
InitOverride ==
    /\ light_name \in {"distant", "iesTest"}
    /\ all_attrs \in {<<NameOrder[1]>>, <<NameOrder[1], NameOrder[2]>>}
    /\ all_frames \in OverrideFrameLists(light_name)
    /\ Len(all_attrs) = 2 => all_frames[1] = 1
    /\ frame_groups = <<>>
    /\ stage = <<>>
    /\ pc = "run"
    /\ err = ""
    /\ result = <<>>
    /\ call = None
    /\ fallback_calls = [n \in AttrNames |-> 0]
    /\ compared = None
    /\ NoProgram

SpecOverride == InitOverride /\ [][Next]_vars

-----------------------------------------------------------------------------
(* move_render_frames: move_frames, for one renderer *)

\* the (start, end) ranges and FrameRange.has_frame / iter_frames
MoveRanges == {r \in (1 .. MaxMoveFrame) \X (1 .. MaxMoveFrame) : r[1] <= r[2]}

has_frame(range, frame) == range[1] <= frame /\ frame <= range[2]

iter_frames(range) == [i \in 1 .. range[2] - range[1] + 1 |-> range[1] + i - 1]

RECURSIVE Flatten(_)
Flatten(ss) == IF ss = <<>> THEN <<>> ELSE Head(ss) \o Flatten(Tail(ss))

Reverse(s) == [i \in 1 .. Len(s) |-> s[Len(s) + 1 - i]]

\* the renames gathered for the files that exist, light by light in the
\* order of `lights`, frame by frame; a path is <<light, frame>>
gather_renames(old_frames, new_frames, lights, files) ==
    LET n == old_frames[2] - old_frames[1] + 1
        of_light(light) ==
            SelectSeq([i \in 1 .. n |->
                          [light |-> light,
                           old_frame |-> iter_frames(old_frames)[i],
                           new_frame |-> iter_frames(new_frames)[i]]],
                      LAMBDA r : <<r.light, r.old_frame>> \in DOMAIN files)
    IN  Flatten([l \in 1 .. Len(lights) |-> of_light(lights[l])])

\* `if new_frames.end > old_frames.end: renames.reverse()`
order_renames(old_frames, new_frames, renames) ==
    IF new_frames[2] > old_frames[2] THEN Reverse(renames) ELSE renames

\* the renames whose destination is outside the old range and exists
collisions(old_frames, renames, files) ==
    SelectSeq(renames, LAMBDA r : /\ ~has_frame(old_frames, r.new_frame)
                                  /\ <<r.light, r.new_frame>> \in DOMAIN files)

\* mover = [old_frames, new_frames, lights, git, files |-> the renders on
\*          disk (path -> the path the render had at the start), renames,
\*          i |-> the renames done, pc, exc, existed |-> a move found a file
\*          at its destination, start |-> the files at the start]
InitMover ==
    /\ FinderIdle
    /\ gen = None
    /\ images = None
    /\ persisted = None
    /\ checked = None
    /\ \E old_frames \in MoveRanges, new_frames \in MoveRanges, git \in BOOLEAN,
          lights \in {<<"dome">>, <<"dome", "distant">>, <<"dome", "dome">>},
          paths \in SUBSET ({"dome", "distant"} \X (1 .. MaxMoveFrame)) :
          mover = [old_frames |-> old_frames, new_frames |-> new_frames,
                   lights |-> lights, git |-> git,
                   files |-> [path \in paths |-> path],
                   start |-> [path \in paths |-> path],
                   renames |-> <<>>, i |-> 0, pc |-> "start", exc |-> "",
                   existed |-> FALSE]
    /\ recorder = None

\* move_frames up to the moves: the early return, the frame-count check,
\* the gathering and ordering of the renames, the collision validation
MoveValidate ==
    /\ mover # None
    /\ mover.pc = "start"
    /\ LET old_frames == mover.old_frames
           new_frames == mover.new_frames
           renames == order_renames(old_frames, new_frames,
                          gather_renames(old_frames, new_frames, mover.lights, mover.files))
       IN  mover' =
             IF old_frames = new_frames THEN [mover EXCEPT !.pc = "done"]
             ELSE IF old_frames[2] - old_frames[1] # new_frames[2] - new_frames[1]
             THEN [mover EXCEPT !.pc = "raised", !.exc = "ValueError"]
             ELSE IF collisions(old_frames, renames, mover.files) # <<>>
             THEN [mover EXCEPT !.pc = "raised", !.exc = "RuntimeError", !.renames = renames]
             ELSE [mover EXCEPT !.pc = "moving", !.renames = renames]
    /\ UNCHANGED finder_vars
    /\ UNCHANGED <<gen, images, persisted, checked, recorder>>

\* the files after shutil.move(old_path, new_path): the destination is
\* replaced when it exists
move(files, old_path, new_path) ==
    [path \in (DOMAIN files \ {old_path}) \cup {new_path} |->
        IF path = new_path THEN files[old_path] ELSE files[path]]

\* one turn of `for rename in renames`: rename.move() or rename.git_move();
\* a missing source raises, and `git mv` refuses an existing destination
MoveOne ==
    /\ mover # None
    /\ mover.pc = "moving"
    /\ mover.i < Len(mover.renames)
    /\ LET rename == mover.renames[mover.i + 1]
           old_path == <<rename.light, rename.old_frame>>
           new_path == <<rename.light, rename.new_frame>>
           present == new_path \in DOMAIN mover.files
       IN  mover' =
             IF old_path \notin DOMAIN mover.files
             THEN [mover EXCEPT !.pc = "raised",
                       !.exc = IF mover.git THEN "CalledProcessError" ELSE "FileNotFoundError"]
             ELSE IF mover.git /\ present
             THEN [mover EXCEPT !.pc = "raised", !.exc = "CalledProcessError",
                                !.existed = TRUE]
             ELSE [mover EXCEPT !.i = mover.i + 1,
                                !.files = move(mover.files, old_path, new_path),
                                !.existed = mover.existed \/ present]
    /\ UNCHANGED finder_vars
    /\ UNCHANGED <<gen, images, persisted, checked, recorder>>

MoveDone ==
    /\ mover # None
    /\ mover.pc = "moving"
    /\ mover.i = Len(mover.renames)
    /\ mover' = [mover EXCEPT !.pc = "done"]
    /\ UNCHANGED finder_vars
    /\ UNCHANGED <<gen, images, persisted, checked, recorder>>

NextMover == MoveValidate \/ MoveOne \/ MoveDone

SpecMover == InitMover /\ [][NextMover]_vars

-----------------------------------------------------------------------------
(* genembree: run_test reading the output of usdrecord *)

\* Output bytes are characters; "R", "c" stands for "Recording time code: ",
\* the prefix USD_RECORD_FRAME_RE matches at the start of a line.
RecordingLine == <<"R", "c">>

USD_RECORD_FRAME_RE_match(line) ==
    Len(line) >= Len(RecordingLine) /\ SubSeq(line, 1, Len(RecordingLine)) = RecordingLine

\* newtext.split(b"\n")
RECURSIVE split(_)
split(text) ==
    IF \A i \in 1 .. Len(text) : text[i] # "\n" THEN <<text>>
    ELSE LET i == CHOOSE j \in 1 .. Len(text) :
                      text[j] = "\n" /\ \A h \in 1 .. j - 1 : text[h] # "\n"
         IN  <<SubSeq(text, 1, i - 1)>> \o split(SubSeq(text, i + 1, Len(text)))

\* line.rstrip(b"\r")
RECURSIVE rstrip(_)
rstrip(line) ==
    IF line # <<>> /\ line[Len(line)] = "\r" THEN rstrip(SubSeq(line, 1, Len(line) - 1))
    ELSE line

\* mutant: the callback is also invoked for the first recording line
process_finished_line_counts_first(r, line) ==
    LET seen == [r EXCEPT !.processed = Append(r.processed, line)]
    IN  IF USD_RECORD_FRAME_RE_match(line)
        THEN [seen EXCEPT !.callbacks = r.callbacks + 1, !.read_first_frame = TRUE]
        ELSE seen

\* process_finished_line, with the lines it was given recorded in `processed`
process_finished_line(r, line) ==
    LET seen == [r EXCEPT !.processed = Append(r.processed, line)]
    IN  IF USD_RECORD_FRAME_RE_match(line) THEN
            IF r.read_first_frame THEN [seen EXCEPT !.callbacks = r.callbacks + 1]
            ELSE [seen EXCEPT !.read_first_frame = TRUE]
        ELSE seen

\* the loop `for line in lines` of process_text
RECURSIVE process_lines(_, _)
process_lines(r, lines) ==
    IF lines = <<>> THEN r
    ELSE LET line == rstrip(Head(lines))
             finished_line ==
                 IF r.current_line # <<>> THEN Flatten(Append(r.current_line, line))
                 ELSE line
             r1 == [r EXCEPT !.current_line = <<>>]
         IN  process_lines(process_finished_line(r1, finished_line), Tail(lines))

process_text(r, newtext) ==
    IF newtext = <<>> THEN r
    ELSE LET lines == split(newtext)
             unfinished_line == Last(lines)
             r1 == process_lines(r, SubSeq(lines, 1, Len(lines) - 1))
         IN  IF unfinished_line # <<>>
             THEN [r1 EXCEPT !.current_line = Append(r1.current_line, unfinished_line)]
             ELSE r1

\* what usdrecord prints: lines that end in "\n" or "\r\n", and a last line
\* that may lack its newline
RecorderLines ==
    UNION {[1 .. n -> [text : {RecordingLine, <<"x">>}, end : {<<"\n">>, <<"\r", "\n">>}]] :
              n \in 0 .. MaxLines}

\* recorder = [lines |-> the newline-terminated lines printed, stdout |-> the
\*             bytes not read yet, current_line, read_first_frame,
\*             callbacks |-> the calls of frame_callback, processed, pc]
InitRecorder ==
    /\ FinderIdle
    /\ gen = None
    /\ images = None
    /\ persisted = None
    /\ checked = None
    /\ mover = None
    /\ \E lines \in RecorderLines, tail \in {<<>>, RecordingLine} :
          recorder = [lines |-> [i \in 1 .. Len(lines) |-> lines[i].text],
                      stdout |-> Flatten([i \in 1 .. Len(lines) |->
                                             lines[i].text \o lines[i].end]) \o tail,
                      current_line |-> <<>>, read_first_frame |-> FALSE,
                      callbacks |-> 0, processed |-> <<>>, pc |-> "reading"]

\* proc.stdout.read1() returns some of the bytes printed so far, and
\* process_text takes them; both read loops of run_test
RecRead ==
    /\ recorder # None
    /\ recorder.pc = "reading"
    /\ \E n \in 1 .. Len(recorder.stdout) :
          LET newtext == SubSeq(recorder.stdout, 1, n)
              rest == SubSeq(recorder.stdout, n + 1, Len(recorder.stdout))
          IN  recorder' = process_text([recorder EXCEPT !.stdout = rest], newtext)
    /\ UNCHANGED finder_vars
    /\ UNCHANGED <<gen, images, persisted, checked, mover>>

\* read1() returns nothing more: the callback for the last frame, and the
\* text left in current_line is handed to process_text
RecEnd ==
    /\ recorder # None
    /\ recorder.pc = "reading"
    /\ recorder.stdout = <<>>
    /\ LET called == [recorder EXCEPT !.callbacks = recorder.callbacks + 1, !.pc = "done"]
       IN  recorder' = IF called.current_line # <<>>
                       THEN process_text(called, Flatten(called.current_line))
                       ELSE called
    /\ UNCHANGED finder_vars
    /\ UNCHANGED <<gen, images, persisted, checked, mover>>

NextRecorder == RecRead \/ RecEnd

SpecRecorder == InitRecorder /\ [][NextRecorder]_vars

-----------------------------------------------------------------------------
(* is_sorted(vals) on its own *)

\* checked = [vals, pc |-> "made" | "done", result]
InitSorted ==
    /\ FinderIdle
    /\ gen = None
    /\ images = None
    /\ persisted = None
    /\ \E n \in 0 .. MaxLen : \E vals \in [1 .. n -> 1 .. MaxLen] :
          checked = [vals |-> vals, pc |-> "made", result |-> FALSE]
    /\ mover = None
    /\ recorder = None

IsSorted ==
    /\ checked # None
    /\ checked.pc = "made"
    /\ checked' = [checked EXCEPT !.pc = "done", !.result = is_sorted(checked.vals)]
    /\ UNCHANGED finder_vars
    /\ UNCHANGED <<gen, images, persisted, mover, recorder>>

NextSorted == IsSorted

SpecSorted == InitSorted /\ [][NextSorted]_vars

-----------------------------------------------------------------------------
(* Vocabulary of the properties *)

Names == SeqToSet(all_attrs)

NoOverrides == OverrideRanges(light_name) = <<>>

Steps == 1 .. Len(stage) - 1

\* attribute n differs between the i-th and the (i+1)-th frame run
Changes(i, n) == ~vals_close(stage[i][n], stage[i + 1][n])

Increases(i, n) == stage[i + 1][n].v > stage[i][n].v

Changed(i) == {n \in Names : Changes(i, n)}

\* position of frame f in all_frames
Idx(f) == CHOOSE i \in 1 .. Len(all_frames) : all_frames[i] = f

EmptyVarying(g) == DOMAIN g.varying = {}

-----------------------------------------------------------------------------
(* C1 - Coverage: when find returns, the groups are in ascending order and
   their frame ranges tile all_frames: the first group starts at the first
   frame, each group ends at or after its start, the next group starts at the
   input frame right after the end of the one before, the last group ends at
   the last frame, and each group holds exactly the input frames of its
   range. *)
C1_Coverage ==
    pc = "done" =>
        /\ Len(result) >= 1
        /\ Len(result) = Len(frame_groups)
        /\ \A i \in 1 .. Len(result) :
              /\ result[i].frames[1] \in SeqToSet(all_frames)
              /\ result[i].frames[2] \in SeqToSet(all_frames)
              /\ Idx(result[i].frames[1]) <= Idx(result[i].frames[2])
              /\ frames(frame_groups[i]) =
                    SubSeq(all_frames, Idx(result[i].frames[1]), Idx(result[i].frames[2]))
              /\ \A a \in DOMAIN result[i].varying :
                    DOMAIN result[i].varying[a] = SeqToSet(frames(frame_groups[i]))
        /\ result[1].frames[1] = all_frames[1]
        /\ result[Len(result)].frames[2] = all_frames[Len(all_frames)]
        /\ \A i \in 1 .. Len(result) - 1 :
              Idx(result[i + 1].frames[1]) = Idx(result[i].frames[2]) + 1

C1_Witness ==
    /\ pc = "done"
    /\ Len(all_frames) >= 3
    /\ Len(result) >= 2
    /\ \E i \in 1 .. Len(result) : result[i].frames[1] < result[i].frames[2]

-----------------------------------------------------------------------------
\* exactly attribute b changes at every step, always in direction dir
SingleDivergence(b, dir) ==
    /\ Len(stage) >= 2
    /\ \A i \in Steps : Changed(i) = {b} /\ Increases(i, b) = dir

(* C2 - Single-divergence grouping: for a light without override ranges, when
   exactly one attribute b changes at every step of the frame list, always in
   the same direction, find returns one group from the first to the last
   frame whose only varying attribute is b, with the observed direction, and
   every other attribute is in constants or defaults. *)
C2_SingleDivergence ==
    (pc = "done" /\ NoOverrides) =>
        \A b \in Names : \A dir \in BOOLEAN :
            SingleDivergence(b, dir) =>
                /\ Len(result) = 1
                /\ result[1].frames = <<all_frames[1], all_frames[Len(all_frames)]>>
                /\ DOMAIN result[1].varying = {b}
                /\ frame_groups[1].varying = [n \in {b} |-> dir]
                /\ SeqToSet(frame_groups[1].constants \o frame_groups[1].defaults)
                      = Names \ {b}

C2_Witness ==
    /\ pc = "done"
    /\ NoOverrides
    /\ Len(all_frames) >= 3
    /\ Cardinality(Names) = 2
    /\ \E b \in Names : SingleDivergence(b, TRUE)
    /\ Len(result) = 1

-----------------------------------------------------------------------------
\* over four frames attribute c moves twice in direction dir and then once
\* against it, and nothing else changes
Reversal(c, dir) ==
    /\ Len(stage) = 4
    /\ \A i \in Steps : Changed(i) = {c}
    /\ Increases(1, c) = dir
    /\ Increases(2, c) = dir
    /\ Increases(3, c) = ~dir

(* C3 as stated - Direction-consistency split with a shared boundary frame:
   after a reversal find returns the group from the first to the third frame
   and then a group from the third to the fourth frame, both varying in c. *)
C3_SharedBoundary ==
    (pc = "done" /\ NoOverrides) =>
        \A c \in Names : \A dir \in BOOLEAN :
            Reversal(c, dir) =>
                /\ Len(result) = 2
                /\ result[1].frames = <<all_frames[1], all_frames[3]>>
                /\ DOMAIN result[1].varying = {c}
                /\ result[2].frames = <<all_frames[3], all_frames[4]>>
                /\ DOMAIN result[2].varying = {c}

(* C3 - Direction-consistency split: for a light without override ranges,
   when the only changing attribute c reverses direction at the fourth of four
   frames, find returns the group from the first to the third frame with c
   varying in its first direction, followed by a single-frame group holding
   the fourth frame with no varying attribute; no frame is in both groups. *)
C3_DirectionSplit ==
    (pc = "done" /\ NoOverrides) =>
        \A c \in Names : \A dir \in BOOLEAN :
            Reversal(c, dir) =>
                /\ Len(result) = 2
                /\ result[1].frames = <<all_frames[1], all_frames[3]>>
                /\ DOMAIN result[1].varying = {c}
                /\ frame_groups[1].varying = [n \in {c} |-> dir]
                /\ result[2].frames = <<all_frames[4], all_frames[4]>>
                /\ EmptyVarying(result[2])

C3_Witness ==
    /\ pc = "done"
    /\ NoOverrides
    /\ all_frames = <<1, 2, 3, 4>>
    /\ \E c \in Names : Names = {c} /\ Reversal(c, TRUE)
    /\ Len(result) = 2

-----------------------------------------------------------------------------
\* two or more attributes change at every step
MultiDivergence == \A i \in Steps : Cardinality(Changed(i)) >= 2

(* C4 - Multi-divergence split: for a light without override ranges, when two
   or more attributes change at every step, find returns one single-frame
   group per input frame, each with no varying attribute. *)
C4_MultiDivergence ==
    (pc = "done" /\ NoOverrides /\ MultiDivergence) =>
        /\ Len(result) = Len(all_frames)
        /\ \A i \in 1 .. Len(result) :
              /\ result[i].frames = <<all_frames[i], all_frames[i]>>
              /\ EmptyVarying(result[i])

C4_Witness ==
    /\ pc = "done"
    /\ NoOverrides
    /\ MultiDivergence
    /\ Len(all_frames) >= 3
    /\ Len(result) = Len(all_frames)

-----------------------------------------------------------------------------
(* C5 - Single-frame grouping: for any light, with attributes of distinct
   names and a single frame f, find raises nothing and returns exactly one
   group, with frames (f, f) and no varying attribute. *)
C5_SingleFrame ==
    (Len(all_frames) = 1 /\ ~HasDuplicates(all_attrs)) =>
        /\ pc # "raised"
        /\ pc = "done" =>
              /\ Len(result) = 1
              /\ result[1].frames = <<all_frames[1], all_frames[1]>>
              /\ EmptyVarying(result[1])

-----------------------------------------------------------------------------
\* positions in all_frames of the first and the last frame of returned group i
Lo(i) == Idx(result[i].frames[1])

Hi(i) == Idx(result[i].frames[2])

\* the attributes that change somewhere between the frames at positions lo .. hi
ChangedIn(lo, hi) == UNION {Changed(i) : i \in lo .. hi - 1}

\* at most one attribute changes between positions lo and hi, always in the
\* same direction when it does (it may pause), and every other one is constant
AtMostOneVaryingSegment(lo, hi) ==
    /\ Cardinality(ChangedIn(lo, hi)) <= 1
    /\ \A c \in ChangedIn(lo, hi) : \A i, j \in lo .. hi - 1 :
          (Changes(i, c) /\ Changes(j, c)) => Increases(i, c) = Increases(j, c)

\* one frame, or exactly one attribute changes at every step between positions
\* lo and hi, always in the same direction
OneVaryingSegment(lo, hi) ==
    \/ lo = hi
    \/ \E c \in Names : \E dir \in BOOLEAN :
          \A i \in lo .. hi - 1 : Changed(i) = {c} /\ Increases(i, c) = dir

(* C6 as stated - Maximality for "at most one varying attribute": without
   override ranges every returned group is a segment in which at most one
   attribute changes (in one direction, pauses and runs without any change
   included), and adding the next input frame to it never gives such a
   segment. *)
C6_MaximalAtMostOne ==
    (pc = "done" /\ NoOverrides) =>
        \A i \in 1 .. Len(result) :
            /\ AtMostOneVaryingSegment(Lo(i), Hi(i))
            /\ i < Len(result) => ~AtMostOneVaryingSegment(Lo(i), Hi(i) + 1)

(* C6 - Maximality: for a light without override ranges, every returned
   group is a single frame or a segment in which exactly one attribute changes
   at every step, always in the same direction, while all others stay
   constant; and no returned group can be extended by the input frame that
   follows it and still be such a segment. *)
C6_Maximal ==
    (pc = "done" /\ NoOverrides) =>
        \A i \in 1 .. Len(result) :
            /\ OneVaryingSegment(Lo(i), Hi(i))
            /\ i < Len(result) => ~OneVaryingSegment(Lo(i), Hi(i) + 1)

C6_Witness ==
    /\ pc = "done"
    /\ NoOverrides
    /\ Cardinality(Names) = 2
    /\ Len(result) = 2
    /\ Hi(1) - Lo(1) = 2
    /\ Changed(3) = {}

-----------------------------------------------------------------------------
\* the tracker, or the returned group, is in no override range
Outside(t) == t.override_group = None

OutsideGroup(g) == get_override_group(light_name, g.frames[1]) = None

(* C7 as stated - At most one varying attribute, for any light: every
   tracker, and every returned group, has at most one varying attribute. *)
C7_AtMostOneVaryingAnyLight ==
    /\ \A i \in 1 .. Len(frame_groups) :
          Cardinality(DOMAIN frame_groups[i].varying) <= 1
    /\ \A i \in 1 .. Len(result) : Cardinality(DOMAIN result[i].varying) <= 1

(* C7 - At most one varying attribute: after any sequence of combine calls a
   tracker that is in no override range has at most one varying attribute, and
   so has every returned group whose frames are in no override range. *)
C7_AtMostOneVarying ==
    /\ \A i \in 1 .. Len(frame_groups) :
          Outside(frame_groups[i]) => Cardinality(DOMAIN frame_groups[i].varying) <= 1
    /\ \A i \in 1 .. Len(result) :
          OutsideGroup(result[i]) => Cardinality(DOMAIN result[i].varying) <= 1

C7_Witness ==
    /\ pc = "done"
    /\ ~NoOverrides
    /\ Cardinality(Names) = 2
    /\ \E i \in 1 .. Len(result) :
          /\ OutsideGroup(result[i])
          /\ Cardinality(DOMAIN result[i].varying) = 1
          /\ Hi(i) - Lo(i) >= 2
    /\ \E i \in Steps : Cardinality(Changed(i)) = 2

-----------------------------------------------------------------------------
\* in tracker t every varying attribute changes at every step, in the
\* direction recorded for it; and so do the values of returned group g
Monotone(t) ==
    \A a \in DOMAIN t.varying : \A j \in 1 .. Len(t.frame_vals) - 1 :
        /\ ~vals_close(t.frame_vals[j].vals[a], t.frame_vals[j + 1].vals[a])
        /\ (t.frame_vals[j + 1].vals[a].v > t.frame_vals[j].vals[a].v) = t.varying[a]

MonotoneGroup(g, t) ==
    \A a \in DOMAIN g.varying : \A j \in Idx(g.frames[1]) .. Idx(g.frames[2]) - 1 :
        /\ ~vals_close(g.varying[a][all_frames[j]], g.varying[a][all_frames[j + 1]])
        /\ (g.varying[a][all_frames[j + 1]].v > g.varying[a][all_frames[j]].v) = t.varying[a]

(* C8 as stated - Monotone direction, for any light: in every tracker and in
   every returned group each varying attribute changes at every step, in the
   direction recorded for it. *)
C8_MonotoneAnyLight ==
    /\ \A i \in 1 .. Len(frame_groups) : Monotone(frame_groups[i])
    /\ \A i \in 1 .. Len(result) : MonotoneGroup(result[i], frame_groups[i])

(* C8 - Monotone direction: in every tracker that is in no override range,
   and in every returned group whose frames are in no override range, the
   varying attribute changes at every consecutive pair of frames, always in
   the direction recorded when it first diverged. *)
C8_Monotone ==
    /\ \A i \in 1 .. Len(frame_groups) :
          Outside(frame_groups[i]) => Monotone(frame_groups[i])
    /\ \A i \in 1 .. Len(result) :
          OutsideGroup(result[i]) => MonotoneGroup(result[i], frame_groups[i])

C8_Witness ==
    /\ pc = "done"
    /\ ~NoOverrides
    /\ \E i \in 1 .. Len(result) :
          /\ OutsideGroup(result[i])
          /\ Hi(i) - Lo(i) >= 2
          /\ \E a \in DOMAIN result[i].varying : ~frame_groups[i].varying[a]

-----------------------------------------------------------------------------
(* C9 as stated - Invariant 3, for every tracker: a tracker with more than
   one frame has a non-empty varying set, and so has every returned group that
   spans more than one frame. *)
C9_ManyFramesVaryingAnyLight ==
    /\ \A i \in 1 .. Len(frame_groups) :
          Len(frame_groups[i].frame_vals) > 1 => DOMAIN frame_groups[i].varying # {}
    /\ \A i \in 1 .. Len(result) :
          result[i].frames[1] < result[i].frames[2] => ~EmptyVarying(result[i])

(* C9 - Invariant 3: a tracker in no override range that holds more than one
   frame has a non-empty varying set, and every returned group in no override
   range that spans more than one frame has a varying attribute. *)
C9_ManyFramesVarying ==
    /\ \A i \in 1 .. Len(frame_groups) :
          (Outside(frame_groups[i]) /\ Len(frame_groups[i].frame_vals) > 1)
              => DOMAIN frame_groups[i].varying # {}
    /\ \A i \in 1 .. Len(result) :
          (OutsideGroup(result[i]) /\ result[i].frames[1] < result[i].frames[2])
              => ~EmptyVarying(result[i])

C9_Witness ==
    /\ pc = "done"
    /\ \E i \in 1 .. Len(result) :
          /\ OutsideGroup(result[i])
          /\ Hi(i) - Lo(i) >= 2
          /\ ~EmptyVarying(result[i])
    /\ \E i \in Steps : Changed(i) = {}

-----------------------------------------------------------------------------
(* C10 - Attribute-set invariance: in every state every tracker's attrs() is
   duplicate-free and is the sorted list of the input attribute names, the
   three lists varying, constants and defaults are pairwise disjoint, and
   every frame's value map has exactly these names as keys. *)
C10_AttrSetInvariance ==
    \A i \in 1 .. Len(frame_groups) :
        LET t == frame_groups[i] IN
        /\ ~HasDuplicates(attrs(t))
        /\ attrs(t) = sorted(all_attrs)
        /\ Len(t.constants) + Len(t.defaults) + Cardinality(DOMAIN t.varying)
              = Cardinality(Names)
        /\ \A j \in 1 .. Len(t.frame_vals) : DOMAIN t.frame_vals[j].vals = Names

C10_Witness ==
    /\ Len(frame_groups) >= 2
    /\ all_attrs = <<NameOrder[2], NameOrder[1]>>
    /\ \E i \in 1 .. Len(frame_groups) :
          /\ Len(frame_groups[i].frame_vals) >= 2
          /\ Cardinality(DOMAIN frame_groups[i].varying) = 1
          /\ Len(frame_groups[i].constants) = 1

-----------------------------------------------------------------------------
\* all frames in fs are in the same override range of the light, or in none
SameOverrideGroup(fs) ==
    \A f, g \in fs : get_override_group(light_name, f) = get_override_group(light_name, g)

\* the input frames returned group g spans
GroupFrames(g) == {all_frames[j] : j \in Idx(g.frames[1]) .. Idx(g.frames[2])}

(* C11 - Override-group homogeneity: in every state the frames of every
   tracker are all in the same override range of the light or all in none,
   the tracker's override_group is that range, and the same holds for the
   input frames spanned by every group find returns. *)
C11_OverrideHomogeneity ==
    /\ \A i \in 1 .. Len(frame_groups) :
          /\ SameOverrideGroup(SeqToSet(frames(frame_groups[i])))
          /\ \A f \in SeqToSet(frames(frame_groups[i])) :
                get_override_group(light_name, f) = frame_groups[i].override_group
    /\ \A i \in 1 .. Len(result) : SameOverrideGroup(GroupFrames(result[i]))

C11_Witness ==
    /\ pc = "done"
    /\ Len(result) = 2
    /\ Hi(1) - Lo(1) >= 1
    /\ get_override_group(light_name, result[1].frames[1]) # None
    /\ get_override_group(light_name, result[2].frames[1])
          # get_override_group(light_name, result[1].frames[1])
    /\ \E a \in Names : \A i \in Steps : Changed(i) = {a} /\ Increases(i, a)

-----------------------------------------------------------------------------
(* Vocabulary of the properties of one combine call *)

\* the override range the frames of tracker t are in, None if in none
RangeOf(t) == get_override_group(light_name, t.frame_vals[1].frame)

\* the call broke the contract of combine: another attribute set, a candidate
\* that does not hold exactly one frame, or a frame that is not greater than
\* every frame of the tracker
ContractBroken ==
    \/ SeqToSet(attrs(call.self)) # SeqToSet(attrs(call.other))
    \/ Len(call.other.frame_vals) # 1
    \/ \E f \in SeqToSet(frames(call.self)) : \E g \in SeqToSet(frames(call.other)) : g <= f

\* combine was called within its contract
Called == call # None /\ ~ContractBroken

\* the values of the tracker's last frame and of the candidate's frame
OldVals == Last(call.self.frame_vals).vals

NewVals == call.other.frame_vals[1].vals

\* the attributes that are not close between the two
Diff == {n \in DOMAIN OldVals : ~vals_close(OldVals[n], NewVals[n])}

OverrideInvolved == RangeOf(call.self) # None \/ RangeOf(call.other) # None

-----------------------------------------------------------------------------
(* C12 - Override-group precedence: when combine is called within its
   contract and the tracker or the candidate is in an override range of the
   light, combine raises nothing and returns True if and only if both are in
   the same override range, whatever attributes differ between the tracker's
   last frame and the candidate. *)
C12_OverridePrecedence ==
    (Called /\ OverrideInvolved) =>
        /\ call.err = ""
        /\ call.combined <=> RangeOf(call.self) = RangeOf(call.other)

C12_Witness ==
    /\ Called
    /\ RangeOf(call.self) = None
    /\ RangeOf(call.other) # None
    /\ Cardinality(Diff) = 1
    /\ ~call.combined
    /\ Len(frame_groups) = 2

\* further cases of C12: a merge inside one range with no difference at all,
\* and one with two attributes differing
C12_MergedUnchanged ==
    Called /\ RangeOf(call.self) # None /\ Diff = {} /\ call.combined

C12_MergedTwoDiffer ==
    Called /\ RangeOf(call.self) # None /\ Cardinality(Diff) = 2 /\ call.combined

-----------------------------------------------------------------------------
(* C13 - First-divergence rule: when combine is called within its contract,
   no override range is involved and the tracker's varying is empty, combine
   raises nothing and returns True if and only if exactly one attribute is not
   close between the tracker's last frame and the candidate; on True that
   attribute has left the one of constants / defaults that held it, both lists
   are otherwise as before, and it is the only varying attribute, recorded as
   increasing iff the new value is greater than the old one. *)
C13_FirstDivergence ==
    (Called /\ ~OverrideInvolved /\ DOMAIN call.self.varying = {}) =>
        /\ call.err = ""
        /\ call.combined <=> Cardinality(Diff) = 1
        /\ call.combined =>
              \A a \in Diff :
                 /\ call.after.varying = [n \in {a} |-> NewVals[a].v > OldVals[a].v]
                 /\ a \in SeqToSet(call.self.constants \o call.self.defaults)
                 /\ call.after.constants =
                       SelectSeq(call.self.constants, LAMBDA n : n # a)
                 /\ call.after.defaults =
                       SelectSeq(call.self.defaults, LAMBDA n : n # a)
                 /\ frames(call.after) = frames(call.self) \o frames(call.other)

C13_Witness ==
    /\ Called
    /\ ~OverrideInvolved
    /\ DOMAIN call.self.varying = {}
    /\ call.combined
    /\ Len(call.self.defaults) = 2
    /\ \E a \in Diff : NewVals[a].v > OldVals[a].v /\ call.after.varying[a]

-----------------------------------------------------------------------------
\* the diff of the call as combine computes it: attribute -> increased
DiffMap == [n \in Diff |-> NewVals[n].v > OldVals[n].v]

\* the tracker of the call already has a varying attribute and no override
\* range is involved
Continuation == Called /\ ~OverrideInvolved /\ DOMAIN call.self.varying # {}

(* C14 - Continuation rule: when combine is called within its contract, no
   override range is involved and the tracker already has a varying
   attribute, combine raises nothing and returns True if and only if the diff
   between the tracker's last frame and the candidate is the tracker's varying
   mapping, name and direction; so an empty diff, another attribute, the same
   attribute in the other direction and more than one attribute are all
   rejected. On True varying, constants and defaults are as before. *)
C14_Continuation ==
    Continuation =>
        /\ call.err = ""
        /\ call.combined <=> DiffMap = call.self.varying
        /\ Diff = {} => ~call.combined
        /\ Cardinality(Diff) > 1 => ~call.combined
        /\ (\E a \in Diff : a \notin DOMAIN call.self.varying) => ~call.combined
        /\ (\E a \in Diff \cap DOMAIN call.self.varying :
                DiffMap[a] # call.self.varying[a]) => ~call.combined
        /\ call.combined =>
              /\ call.after.varying = call.self.varying
              /\ call.after.constants = call.self.constants
              /\ call.after.defaults = call.self.defaults
              /\ frames(call.after) = frames(call.self) \o frames(call.other)

C14_Witness ==
    /\ Continuation
    /\ ~call.combined
    /\ \E a \in DOMAIN call.self.varying : Diff = {a} /\ DiffMap[a] # call.self.varying[a]

\* further cases of C14: a continuation that merges, and the rejections of
\* an empty diff, of another attribute and of two attributes
C14_Merged == Continuation /\ call.combined

C14_RejectedPause == Continuation /\ Diff = {} /\ ~call.combined

C14_RejectedOther ==
    Continuation /\ Cardinality(Diff) = 1 /\ Diff \cap DOMAIN call.self.varying = {}
        /\ ~call.combined

C14_RejectedTwo == Continuation /\ Cardinality(Diff) = 2 /\ ~call.combined

-----------------------------------------------------------------------------
\* the last call of combine returned False
Rejected == call # None /\ call.err = "" /\ ~call.combined

(* C15 - A rejected merge leaves the tracker untouched: whenever the combine
   call of run_frame returned False, the tracker is, in frame_vals, varying,
   constants, defaults and override_group, what it was before the call; it is
   the last but one tracker of the finder, and the last tracker is the
   candidate, a single-frame tracker holding the rejected frame. *)
C15_RejectedUntouched ==
    Rejected =>
        /\ call.after = call.self
        /\ Len(frame_groups) >= 2
        /\ frame_groups[Len(frame_groups) - 1] = call.self
        /\ Last(frame_groups) = call.other
        /\ frames(Last(frame_groups)) = <<all_frames[Len(stage)]>>

C15_Witness ==
    /\ Rejected
    /\ pc = "run"
    /\ Len(call.self.frame_vals) >= 2
    /\ DOMAIN call.self.varying # {}
    /\ Cardinality(Diff) = 2
    /\ Len(frame_groups) = 2

-----------------------------------------------------------------------------
\* the three ways of breaking the contract of combine
OtherAttrs == SeqToSet(attrs(call.self)) # SeqToSet(attrs(call.other))

NotOneFrame == Len(call.other.frame_vals) # 1

OldFrame ==
    \E f \in SeqToSet(frames(call.self)) : \E g \in SeqToSet(frames(call.other)) : g <= f

(* C16 - Contract violations fail loudly: when combine is called with a
   candidate whose attribute set is not the tracker's, that does not hold
   exactly one frame, or whose frame is not greater than every frame of the
   tracker, it raises ValueError and does not return; the tracker is what it
   was before the call, the error leaves find, and no list of groups is
   returned. *)
C16_ContractViolation ==
    (call # None /\ (OtherAttrs \/ NotOneFrame \/ OldFrame)) =>
        /\ call.err = "ValueError"
        /\ ~call.combined
        /\ call.after = call.self
        /\ Last(frame_groups) = call.self
        /\ pc = "raised"
        /\ err = "ValueError"
        /\ result = <<>>

\* find on a frame list that is not ascending: the frame is not greater
C16_Witness ==
    /\ call # None
    /\ OldFrame /\ ~OtherAttrs /\ ~NotOneFrame
    /\ Len(stage) = 2
    /\ all_frames[2] < all_frames[1]
    /\ pc = "raised"

\* further cases of C16: the candidate of a caller has other attributes, or
\* holds two frames that are both greater than the tracker's
C16_RaisedOtherAttrs == call # None /\ OtherAttrs /\ ~NotOneFrame /\ ~OldFrame /\ pc = "raised"

C16_RaisedNotOneFrame == call # None /\ NotOneFrame /\ ~OtherAttrs /\ ~OldFrame /\ pc = "raised"

-----------------------------------------------------------------------------
\* the default of an attribute: its entry in DEFAULT_OVERRIDES if it has one,
\* the fallback its schema declares otherwise
ResolvedDefault(n) ==
    IF n \in DOMAIN DEFAULT_OVERRIDES THEN DEFAULT_OVERRIDES[n] ELSE SchemaFallback[n]

\* the trackers that hold one frame are the ones for_frame built
SingleFrame(t) == Len(t.frame_vals) = 1

(* C17 - Default classification: a single-frame tracker built by for_frame
   has an empty varying, every attribute is in exactly one of defaults and
   constants, and it is in defaults if and only if its value at the frame is
   close to its resolved default, where an entry of DEFAULT_OVERRIDES goes
   before the fallback the schema declares. *)
C17_DefaultClassification ==
    \A i \in 1 .. Len(frame_groups) :
        LET t == frame_groups[i] IN
        SingleFrame(t) =>
            /\ DOMAIN t.varying = {}
            /\ SeqToSet(t.defaults) \cup SeqToSet(t.constants) = Names
            /\ Len(t.defaults) + Len(t.constants) = Cardinality(Names)
            /\ \A n \in Names :
                  n \in SeqToSet(t.defaults)
                     <=> vals_close(t.frame_vals[1].vals[n], ResolvedDefault(n))

\* the cone angle is at its schema fallback and counts as a constant, the
\* exposure is at its fallback and counts as a default
C17_Witness ==
    /\ all_attrs = <<NameOrder[1], NameOrder[2]>>
    /\ \E i \in 1 .. Len(frame_groups) :
          /\ SingleFrame(frame_groups[i])
          /\ frame_groups[i].frame_vals[1].vals[NameOrder[2]] = SchemaFallback[NameOrder[2]]
          /\ frame_groups[i].constants = <<NameOrder[2]>>
          /\ frame_groups[i].defaults = <<NameOrder[1]>>

\* a further case of C17: the cone angle is at its DEFAULT_OVERRIDES entry, whose
\* value is an int while the attribute's is a float, and counts as a default
C17_AtOverride ==
    \E i \in 1 .. Len(frame_groups) :
        /\ SingleFrame(frame_groups[i])
        /\ NameOrder[2] \in Names
        /\ frame_groups[i].frame_vals[1].vals[NameOrder[2]] = FloatVal(180)
        /\ NameOrder[2] \in SeqToSet(frame_groups[i].defaults)

-----------------------------------------------------------------------------
(* C18 - Default cache reuse: during one run of the finder get_fallback is
   called at most once for each attribute name, the later frames reading the
   default the first frame resolved. *)
C18_ResolvedOnce ==
    \A n \in AttrNames : fallback_calls[n] <= 1

-----------------------------------------------------------------------------
\* attribute n varies in some group find returned
VariesSomewhere(n) == \E i \in 1 .. Len(result) : n \in DOMAIN result[i].varying

\* attribute n is constant in group i and not at its default
NonDefaultConstant(i, n) == n \in SeqToSet(frame_groups[i].constants)

(* C19 - Transform attributes in the constants output: in the groups find
   returns, an xformOp: attribute that is constant and not at its default in
   a group is in that group's non_default_constants, with its value at the
   group's first frame, if and only if it is a varying attribute of some group
   of the light. *)
C19_XformKeptIfVaryingSomewhere ==
    pc = "done" =>
        \A n \in Names : IsXformOp(n) =>
            \A i \in 1 .. Len(result) : NonDefaultConstant(i, n) =>
                /\ n \in DOMAIN result[i].non_default_constants <=> VariesSomewhere(n)
                /\ n \in DOMAIN result[i].non_default_constants =>
                      result[i].non_default_constants[n]
                         = frame_groups[i].frame_vals[1].vals[n]

\* what to_frame_group does: no xformOp: attribute is ever in the
\* non_default_constants of a group, while the other constants are
C19_XformNeverInConstants ==
    pc = "done" =>
        \A i \in 1 .. Len(result) :
            DOMAIN result[i].non_default_constants
               = {n \in SeqToSet(frame_groups[i].constants) : ~IsXformOp(n)}

\* a transform that varies in one group and is constant in another one
C19_Case ==
    /\ pc = "done"
    /\ \E n \in Names :
          /\ IsXformOp(n)
          /\ VariesSomewhere(n)
          /\ \E i \in 1 .. Len(result) : NonDefaultConstant(i, n)

-----------------------------------------------------------------------------
\* the kind of a value: a number, a string, None, a sequence or a mapping
KindOf(val) ==
    CASE val.k \in {"float", "int"} -> "number"
      [] val.k \in {"list", "matrix"} -> "sequence"
      [] val.k = "dict" -> "mapping"
      [] OTHER -> val.k

(* C20 - Heterogeneous comparisons: for two values of different kinds
   (number, string, None, sequence, mapping) vals_close raises nothing and
   returns False, whichever of the two is the float. *)
C20_HeterogeneousNotClose ==
    (compared # None /\ KindOf(compared.val1) # KindOf(compared.val2)) =>
        /\ pc # "raised"
        /\ pc = "done" => compared.returned = FALSE

\* the other way the code differs: a dict is compared as the list of its
\* keys, so a mapping and a sequence of its keys are reported close
C20_MappingCloseToSequence ==
    /\ compared # None
    /\ pc = "done"
    /\ {KindOf(compared.val1), KindOf(compared.val2)} = {"sequence", "mapping"}
    /\ compared.returned = TRUE

-----------------------------------------------------------------------------
\* light i of the stage is processed without error: it does not raise and no
\* light before it that does not raise has its name
Good(i) ==
    /\ ~gen.lights[i].fails
    /\ \A j \in 1 .. i - 1 :
          gen.lights[j].fails \/ gen.lights[j].name # gen.lights[i].name

\* the paths of the lights among the first n that are not processed without
\* error, in stage order
BadPaths(n) ==
    LET bad == SelectSeq([i \in 1 .. n |-> i], LAMBDA i : ~Good(i))
    IN  [k \in 1 .. Len(bad) |-> gen.lights[bad[k]].path]

(* C21 - Per-light error policy: a warning naming the light is printed for
   every light whose processing raised, a second light of the same name
   included, before anything else happens; with errors = "raise" the first
   such light ends the run with its exception and nothing is returned; with
   errors = "warn" the run goes on and returns exactly the descriptions of the
   lights processed without error, a name that appears twice keeping its first
   description. *)
C21_ErrorPolicy ==
    gen.lights # <<>> =>
        /\ gen.warnings = BadPaths(gen.i)
        /\ gen.pc = "raised" =>
              /\ gen.errors = "raise"
              /\ ~Good(gen.i)
              /\ Last(gen.warnings) = gen.lights[gen.i].path
              /\ \A j \in 1 .. gen.i - 1 : Good(j)
        /\ (gen.errors = "raise" /\ gen.pc # "raised") => \A j \in 1 .. gen.i : Good(j)
        /\ gen.errors = "warn" => gen.pc # "raised"
        /\ gen.pc = "returned" =>
              /\ gen.i = Len(gen.lights)
              /\ DOMAIN gen.all_descs = {gen.lights[j].name : j \in {h \in 1 .. gen.i : Good(h)}}
              /\ \A j \in 1 .. gen.i :
                    Good(j) => gen.all_descs[gen.lights[j].name] = gen.lights[j].path

\* errors = "warn": a light raised, a later one has the name of an earlier
\* one, and the run returned the description of the earlier one
C21_Witness ==
    /\ gen.pc = "returned"
    /\ gen.errors = "warn"
    /\ Len(gen.warnings) = 2
    /\ \E j \in 1 .. Len(gen.lights) : gen.lights[j].fails
    /\ \E j \in 1 .. Len(gen.lights) :
          ~gen.lights[j].fails /\ ~Good(j)
    /\ Cardinality(DOMAIN gen.all_descs) = 1

\* a further case of C21: errors = "raise" and the second light of a name
\* ends the run
C21_RaisedOnDuplicate ==
    /\ gen.pc = "raised"
    /\ gen.exc = "ValueError"
    /\ Len(gen.warnings) = 1

-----------------------------------------------------------------------------
TasksIn(st) == {i \in 1 .. Len(images.tasks) : images.tasks[i].st = st}

(* C22 - Bounded concurrency: while gen_images_async runs, at most N image
   tasks are in progress, N = normalize_concurrency(max_concurrency) >= 1;
   the permit of a task is back when the task has finished or failed, so a
   waiting task can start whenever fewer than N are running. *)
C22_BoundedConcurrency ==
    /\ images.N = normalize_concurrency(images.max_concurrency, images.cpus)
    /\ images.N >= 1
    /\ Cardinality(TasksIn("running")) <= images.N
    /\ images.permits = images.N - Cardinality(TasksIn("running"))
    /\ (/\ images.pc = "gather"
        /\ TasksIn("waiting") # {}
        /\ Cardinality(TasksIn("running")) < images.N) => images.permits > 0

\* two tasks are running under a limit of two and a third is waiting
C22_Witness ==
    /\ images.pc = "gather"
    /\ images.N = 2
    /\ Cardinality(TasksIn("running")) = images.N
    /\ TasksIn("waiting") # {}

\* a further case of C22: a task failed and its permit is back
C22_FailedReleased ==
    /\ images.pc = "raised"
    /\ TasksIn("failed") # {}
    /\ TasksIn("running") # {}
    /\ images.permits = images.N - 1

\* C23 as stated: without a supplied limit N is the host CPU count
C23_Original ==
    /\ ~images.supplied => images.N = images.cpus
    /\ (images.supplied /\ images.max_concurrency > 0) => images.N = images.max_concurrency
    /\ images.N >= 1

(* C23 - Default concurrency limit, amended: when the caller supplies no
   limit the default -1 applies and N is the host CPU count minus one, and at
   least 1; an explicit positive value n gives N = n; the limit is never
   below 1. *)
C23_DefaultConcurrency ==
    /\ ~images.supplied =>
          /\ images.max_concurrency = 0 - 1
          /\ images.N = Max2(images.cpus - 1, 1)
    /\ (images.supplied /\ images.max_concurrency > 0) => images.N = images.max_concurrency
    /\ images.N >= 1

\* no limit supplied on a host of three CPUs: two tasks at a time
C23_Witness ==
    /\ ~images.supplied
    /\ images.cpus = 3
    /\ images.N = 2
    /\ Cardinality(TasksIn("running")) = 2
    /\ TasksIn("waiting") # {}

\* a further case of C23: an explicit 0 gives the host CPU count
C23_ZeroIsCpuCount ==
    /\ images.supplied
    /\ images.max_concurrency = 0
    /\ images.cpus = 2
    /\ images.N = 2

(* C29 - Missing image output is an error: once update_png or update_diff
   has run the external tool and the output file does not exist, the task
   raises; a failed diff invocation that writes no file does not complete
   silently. *)
C29_MissingOutputIsError ==
    \A i \in TasksIn("done") \cup TasksIn("failed") :
        ~images.tasks[i].exists => images.tasks[i].st = "failed"

-----------------------------------------------------------------------------
\* every frame key of the varying tables of a description is an int or a float
NumericKeys(desc) ==
    \A i \in 1 .. Len(desc.frame_groups) :
        \A a \in DOMAIN desc.frame_groups[i].varying :
            \A key \in DOMAIN desc.frame_groups[i].varying[a] : key.t \in {"int", "float"}

(* C24 - Serialization round-trip: a list of FrameGroups written to the JSON
   record (frames as a 2-element list, frame keys as text) and read back with
   from_dict gives groups with the same frame ranges, the same varying tables
   with numeric frame keys (an int stays an int, a float a float) and the same
   non_default_constants; from_dict applied again to the converted data gives
   the same result. *)
C24_RoundTrip ==
    /\ persisted.pc # "raised"
    /\ persisted.pc \in {"read", "reread"} =>
          /\ persisted.read = persisted.desc
          /\ NumericKeys(persisted.read)
    /\ persisted.pc = "reread" => persisted.reread = persisted.read

\* two groups were written with int and float frame keys as text, a list for
\* a range, and read back twice
C24_Witness ==
    /\ persisted.pc = "reread"
    /\ Len(persisted.desc.frame_groups) = 2
    /\ persisted.text.frame_groups[1].frames = <<<<"1">>, <<"1", "2">>>>
    /\ DOMAIN persisted.desc.frame_groups[1].varying = {"inputs:exposure"}
    /\ DOMAIN persisted.text.frame_groups[1].varying["inputs:exposure"]
           = {<<"1", "2">>, <<"1", ".", "5">>}
    /\ DOMAIN persisted.reread.frame_groups[1].varying["inputs:exposure"]
           = {IntKey(12), FloatKey(3)}
    /\ persisted.reread.frame_groups[1].frames.cls = "FrameRange"
    /\ persisted.reread.frame_groups[2].non_default_constants # <<>>

\* a further case of C24: the first from_dict stored the converted tables
\* into the data it was given, whose frames are still a list
C24_InputConverted ==
    /\ persisted.pc = "read"
    /\ Len(persisted.data.frame_groups) = 1
    /\ persisted.data.frame_groups[1].frames.cls = "list"
    /\ DOMAIN persisted.data.frame_groups[1].varying # {}
    /\ \A a \in DOMAIN persisted.data.frame_groups[1].varying :
          \A key \in DOMAIN persisted.data.frame_groups[1].varying[a] : key.t # "str"

-----------------------------------------------------------------------------
(* C26 - Order check: is_sorted(vals) is True exactly when every element of
   the sequence is >= the one before it, at every position and not only
   relative to the first element. *)
C26_OrderCheck ==
    checked.pc = "done" =>
        (checked.result <=>
            \A i \in 2 .. Len(checked.vals) : checked.vals[i] >= checked.vals[i - 1])

(* C25 - Constants are unchanging for the life of a group: for every group
   find returns and every attribute its tracker lists in constants or
   defaults, the value at every frame of the group is close to the value at
   the group's first frame. *)
C25_ConstantsUnchanging ==
    pc = "done" =>
        \A i \in 1 .. Len(frame_groups) :
            LET t == frame_groups[i] IN
            \A n \in SeqToSet(t.constants) \cup SeqToSet(t.defaults) :
                \A j \in 1 .. Len(t.frame_vals) :
                    vals_close(t.frame_vals[j].vals[n], t.frame_vals[1].vals[n])

\* the override ranges of the light whose frames are all in the input list
WholeRanges ==
    {OverrideRanges(light_name)[r] : r \in
        {q \in 1 .. Len(OverrideRanges(light_name)) :
            \A f \in OverrideRanges(light_name)[q][1] .. OverrideRanges(light_name)[q][2] :
                f \in SeqToSet(all_frames)}}

(* C27 - Override range yields exactly one group: for a light with an
   override range [s, e] and an ascending input frame list that holds every
   frame s .. e, find returns exactly one group whose frames are (s, e),
   whatever the values on those frames; that group spans the frames s .. e
   only, and no other group holds a frame of the range. *)
C27_OverrideOneGroup ==
    pc = "done" =>
        \A range \in WholeRanges :
            /\ Cardinality({i \in 1 .. Len(result) : result[i].frames = range}) = 1
            /\ \A i \in 1 .. Len(result) :
                  IF result[i].frames = range
                  THEN GroupFrames(result[i]) = range[1] .. range[2]
                  ELSE GroupFrames(result[i]) \cap (range[1] .. range[2]) = {}

\* the frames 1 .. 6 of the light distant: both attributes change inside the
\* range (1, 5), nothing changes from frame 5 to frame 6, and the groups are
\* (1, 5) and (6, 6)
C27_Witness ==
    /\ pc = "done"
    /\ light_name = "distant"
    /\ all_frames = <<1, 2, 3, 4, 5, 6>>
    /\ Len(all_attrs) = 2
    /\ stage[5] = stage[6]
    /\ stage[1][NameOrder[1]] # stage[2][NameOrder[1]]
    /\ stage[1][NameOrder[2]] # stage[2][NameOrder[2]]
    /\ stage[3] = stage[4]
    /\ Len(result) = 2
    /\ result[1].frames = <<1, 5>>
    /\ result[2].frames = <<6, 6>>

\* a further case of C27: the frames 5 .. 11, with the last frame of the range
\* before (6, 10) and a frame of no range
C27_BetweenNeighbours ==
    /\ pc = "done"
    /\ all_frames = <<5, 6, 7, 8, 9, 10, 11>>
    /\ Len(result) = 3
    /\ result[2].frames = <<6, 10>>
    /\ stage[1] = stage[2]
    /\ stage[6] = stage[7]

(* C28 - move_frames never overwrites a render: once the validation has
   passed, no move finds an existing file at its destination, so every render
   that was on disk at the start is still on disk; and when the validation
   fails (frame counts differ, or a destination outside the old range exists)
   the error is raised before any file has been moved. *)
C28_NeverOverwrites ==
    /\ ~mover.existed
    /\ {mover.files[path] : path \in DOMAIN mover.files} = DOMAIN mover.start
    /\ (mover.pc = "raised" /\ mover.exc \in {"ValueError", "RuntimeError"}) =>
          mover.files = mover.start

\* the case of C28 that holds: a list of lights that names no light twice
C28_LightsNamedOnce ==
    ~HasDuplicates(mover.lights) => C28_NeverOverwrites

\* the newline-terminated lines read so far
LinesRead == Len(recorder.processed)

\* the 'Recording time code' lines among the first n lines printed
RecordingLines(n) ==
    Cardinality({i \in 1 .. n : USD_RECORD_FRAME_RE_match(recorder.lines[i])})

(* C30 - Per-frame progress callbacks: with a frame_callback and k >= 1
   newline-terminated 'Recording time code' lines, the callback is invoked
   exactly k times: never for the first such line, once for each later one
   and once more after the process has ended; however the bytes are split
   across reads, every complete line is processed exactly once and in
   order. *)
C30_FrameCallbacks ==
    /\ LinesRead <= Len(recorder.lines)
    /\ \A i \in 1 .. LinesRead : rstrip(recorder.processed[i]) = recorder.lines[i]
    /\ recorder.pc = "reading" =>
          recorder.callbacks = Max2(RecordingLines(LinesRead) - 1, 0)
    /\ recorder.pc = "done" =>
          /\ LinesRead = Len(recorder.lines)
          /\ RecordingLines(LinesRead) >= 1 => recorder.callbacks = RecordingLines(LinesRead)

\* three recording lines, a read that ended inside the prefix of one and a
\* read that ended between "\r" and "\n": three callbacks
C30_Witness ==
    /\ recorder.pc = "done"
    /\ Len(recorder.lines) = 3
    /\ RecordingLines(3) = 3
    /\ recorder.callbacks = 3
    /\ \E i \in 1 .. 3 : recorder.processed[i] = RecordingLine \o <<"\r">>

\* a further case of C30: a read ended inside the prefix of a recording line
C30_SplitPrefix ==
    /\ recorder.pc = "reading"
    /\ recorder.current_line = <<(<<"R">>)>>
    /\ recorder.stdout[1] = "c"
    /\ LinesRead = 1

====
